---- MODULE Spec2Model ----
(***************************************************************************)
(* Convention inference engine of AutoSpecMan                              *)
(* (src/autospecman/detectors/history.py, src/autospecman/llm.py).         *)
(*                                                                         *)
(* Python strings are TLA+ strings, read with Len, SubSeq and \o.          *)
(* Python values that may have any JSON type are records [t, s, n]: the    *)
(* type name, the string payload and the integer payload (length of a      *)
(* list or dict, value of an int or bool).                                 *)
(***************************************************************************)
EXTENDS Integers, Sequences, FiniteSets, TLC

VARIABLES
    pc,              \* position in the call being modelled
    use_llm,         \* analyze_git_history(use_llm=...)
    has_api_key,     \* an API key is available (parameter or environment)
    repo,            \* what git would print for the repository
    returncodes,     \* exit codes of the git commands run so far
    timestamps,      \* local of analyze_git_history
    authors,         \* local of analyze_git_history
    commit_messages, \* local of analyze_git_history
    branches,        \* local of analyze_git_history
    tags,            \* local of analyze_git_history
    locals,          \* the other locals of analyze_git_history
    llm_outcome,     \* what the HTTP exchange produced
    llm_result,      \* local of analyze_git_history (a dict, or "unset")
    exc,             \* exception in flight ("" = none)
    http_requests,   \* number of POSTs sent to the endpoint
    raised,          \* exception that left analyze_git_history ("" = none)
    result,          \* the HistoryMetrics returned
    arg,             \* argument of a detector called on its own
    ret,             \* its return value
    _instance,       \* CodeIndexClientManager._instance (0 = None, else a manager)
    _lock,           \* CodeIndexClientManager._lock (0 = free, else the holder)
    managers,        \* the managers constructed: their _clients and _client_lock
    clients,         \* the CodeIndexClient objects constructed
    threads,         \* the threads calling get_instance().get_client(db_path)
    db_files         \* the database files that exist (absolute paths)

\* the state of utils/codeindex_utils.py
managerVars == <<_instance, _lock, managers, clients, threads, db_files>>

vars == <<pc, use_llm, has_api_key, repo, returncodes, timestamps, authors, commit_messages,
          branches, tags, locals, llm_outcome, llm_result, exc,
          http_requests, raised, result, arg, ret, managerVars>>

-----------------------------------------------------------------------------
(* Bounds of the model *)

MaxBranches == 4
MaxCommits == 4
MaxTags == 3
\* the largest number of HTTP requests followed in one call
MaxRequests == 3
MaxThreads == 2

-----------------------------------------------------------------------------
(* Python str operations *)

UPPER == "ABCDEFGHIJKLMNOPQRSTUVWXYZ"
LOWER == "abcdefghijklmnopqrstuvwxyz"
DIGITS == "0123456789"
\* the printable ASCII characters the inputs use, in code-point order
ASCII_ORDER == " !#$%&'()*+,-./0123456789:;<=>?@ABCDEFGHIJKLMNOPQRSTUVWXYZ[\\]^_abcdefghijklmnopqrstuvwxyz{|}~"

Char(s, i) == SubSeq(s, i, i)

IndexIn(alphabet, c) ==
    IF \E i \in 1..Len(alphabet) : Char(alphabet, i) = c
    THEN CHOOSE i \in 1..Len(alphabet) : Char(alphabet, i) = c
    ELSE 0

CharsOf(alphabet) == {Char(alphabet, i) : i \in 1..Len(alphabet)}

\* lookup tables over the characters of an alphabet
OrdTable == [c \in CharsOf(ASCII_ORDER) |-> IndexIn(ASCII_ORDER, c)]
LowerTable == [c \in CharsOf(UPPER) |-> Char(LOWER, IndexIn(UPPER, c))]
DigitChars == CharsOf(DIGITS)
UpperChars == CharsOf(UPPER)
LowerChars == CharsOf(LOWER)

Ord(c) == OrdTable[c]

IsDigit(c) == c \in DigitChars

LowerChar(c) == IF c \in UpperChars THEN LowerTable[c] ELSE c

RECURSIVE lower(_)
lower(s) == IF s = "" THEN "" ELSE LowerChar(Head(s)) \o lower(Tail(s))

startswith(s, p) == Len(s) >= Len(p) /\ SubSeq(s, 1, Len(p)) = p

contains(s, p) ==
    \E i \in 1..(Len(s) - Len(p) + 1) : SubSeq(s, i, i + Len(p) - 1) = p

\* s.strip() == "" : only blanks
IsBlank(s) == \A i \in 1..Len(s) : Char(s, i) = " "

\* s.split(sep) for a one-character separator
RECURSIVE split(_, _)
split(s, sep) ==
    IF ~contains(s, sep) THEN <<s>>
    ELSE LET i == CHOOSE k \in 1..Len(s) :
                    /\ Char(s, k) = sep
                    /\ \A j \in 1..(k - 1) : Char(s, j) # sep
         IN <<SubSeq(s, 1, i - 1)>> \o split(SubSeq(s, i + 1, Len(s)), sep)

\* sep.join(parts)
RECURSIVE join(_, _)
join(parts, sep) ==
    IF parts = <<>> THEN ""
    ELSE IF Len(parts) = 1 THEN parts[1]
    ELSE parts[1] \o sep \o join(Tail(parts), sep)

\* parts.index(x), 1-based; 0 when x is not in parts
ListIndex(parts, x) ==
    IF \E i \in 1..Len(parts) : parts[i] = x
    THEN CHOOSE i \in 1..Len(parts) :
            parts[i] = x /\ \A j \in 1..(i - 1) : parts[j] # x
    ELSE 0

\* a < b for Python str (code-point order)
RECURSIVE StrLess(_, _)
StrLess(a, b) ==
    IF b = "" THEN FALSE
    ELSE IF a = "" THEN TRUE
    ELSE IF Head(a) = Head(b) THEN StrLess(Tail(a), Tail(b))
    ELSE Ord(Head(a)) < Ord(Head(b))

\* sorted(S) for a set of distinct strings
RECURSIVE sorted(_)
sorted(S) ==
    IF S = {} THEN <<>>
    ELSE LET m == CHOOSE x \in S : \A y \in S : x = y \/ StrLess(x, y)
         IN <<m>> \o sorted(S \ {m})

Range(f) == {f[i] : i \in DOMAIN f}

Max(a, b) == IF a >= b THEN a ELSE b
Min(a, b) == IF a <= b THEN a ELSE b

-----------------------------------------------------------------------------
(* Python values *)

PyNone == [t |-> "NoneType", s |-> "", n |-> 0]
PyStr(x) == [t |-> "str", s |-> x, n |-> 0]
PyInt(k) == [t |-> "int", s |-> "", n |-> k]
PyList(k) == [t |-> "list", s |-> "", n |-> k]
\* a float with two decimals, n in hundredths
PyFloat(h) == [t |-> "float", s |-> "", n |-> h]

\* bool(x): None, "", 0 and empty containers are falsy
Truthy(x) ==
    CASE x.t = "NoneType" -> FALSE
      [] x.t = "str" -> x.s # ""
      [] OTHER -> x.n # 0

-----------------------------------------------------------------------------
(* BranchAnalyzer: history.py, _detect_branch_strategy and _detect_branch_types *)

\* variant: a release branch also counts for the feature-branch rule
_detect_branch_strategy_release(bs) ==
    LET branch_lower == {lower(b) : b \in bs}
        has_main == "main" \in branch_lower
        has_master == "master" \in branch_lower
        has_develop == "develop" \in branch_lower \/ "dev" \in branch_lower
        has_release == \E b \in bs : contains(lower(b), "release")
        has_feature == \E b \in bs :
                          contains(lower(b), "feature") \/ contains(lower(b), "feat")
        has_hotfix == \E b \in bs : contains(lower(b), "hotfix")
    IN IF has_develop /\ (has_feature \/ has_release \/ has_hotfix)
       THEN PyStr("git-flow")
       ELSE IF has_main \/ has_master
       THEN IF has_develop THEN PyStr("github-flow-with-develop")
            ELSE IF has_feature \/ has_release \/ has_hotfix
            THEN PyStr("feature-branch")
            ELSE PyStr("trunk-based")
       ELSE PyNone

_detect_branch_strategy(bs) ==
    LET branch_lower == {lower(b) : b \in bs}
        has_main == "main" \in branch_lower
        has_master == "master" \in branch_lower
        has_develop == "develop" \in branch_lower \/ "dev" \in branch_lower
        has_release == \E b \in bs : contains(lower(b), "release")
        has_feature == \E b \in bs :
                          contains(lower(b), "feature") \/ contains(lower(b), "feat")
        has_hotfix == \E b \in bs : contains(lower(b), "hotfix")
    IN IF has_develop /\ (has_feature \/ has_release \/ has_hotfix)
       THEN PyStr("git-flow")
       ELSE IF has_main \/ has_master
       THEN IF has_develop THEN PyStr("github-flow-with-develop")
            ELSE IF has_feature \/ has_hotfix THEN PyStr("feature-branch")
            ELSE PyStr("trunk-based")
       ELSE PyNone

main_branches ==
    {"main", "master", "develop", "dev", "trunk", "production", "prod",
     "staging", "stage"}

branch_type_patterns ==
    <<"feature", "feat", "fix", "bugfix", "bug", "hotfix", "release", "chore",
      "docs", "refactor", "test", "perf", "style">>

\* the branch_name computed inside both loops of _detect_branch_types
types_branch_name(branch) ==
    IF ~contains(branch, "/") THEN branch
    ELSE LET parts == split(branch, "/")
             origin_idx == ListIndex(parts, "origin")
             remotes_idx == ListIndex(parts, "remotes")
         IN IF origin_idx > 0
            THEN IF origin_idx < Len(parts)
                 THEN join(SubSeq(parts, origin_idx + 1, Len(parts)), "/")
                 ELSE branch
            ELSE IF remotes_idx = 0
                 THEN parts[Len(parts)]
                 ELSE join(SubSeq(parts, remotes_idx + 2, Len(parts)), "/")

\* first loop: the first catalogue entry the name starts with, then break
first_type(branch_lower) ==
    LET hits == {i \in 1..Len(branch_type_patterns) :
                    \/ startswith(branch_lower, branch_type_patterns[i] \o "-")
                    \/ startswith(branch_lower, branch_type_patterns[i] \o "/")}
    IN IF hits = {} THEN {}
       ELSE {branch_type_patterns[CHOOSE i \in hits : \A j \in hits : i <= j]}

\* second loop: hotfix / bugfix as a leading token
leading_type(branch_lower) ==
    {p \in {"hotfix", "bugfix"} :
        /\ contains(branch_lower, p)
        /\ \/ startswith(branch_lower, p)
           \/ startswith(branch_lower, p \o "-")
           \/ startswith(branch_lower, p \o "/")}

\* variant: the types found are listed in catalogue order
_detect_branch_types_catalogue_order(bs) ==
    LET feature_branches ==
            {b \in bs : lower(b) \notin main_branches /\ ~startswith(b, "HEAD")}
        found_types ==
            UNION {first_type(lower(types_branch_name(b)))
                     \cup leading_type(lower(types_branch_name(b))) :
                   b \in feature_branches}
    IN SelectSeq(branch_type_patterns, LAMBDA p : p \in found_types)

_detect_branch_types(bs) ==
    LET feature_branches ==
            {b \in bs : lower(b) \notin main_branches /\ ~startswith(b, "HEAD")}
        found_types ==
            UNION {first_type(lower(types_branch_name(b)))
                     \cup leading_type(lower(types_branch_name(b))) :
                   b \in feature_branches}
    IN sorted(found_types)

-----------------------------------------------------------------------------
(* Branch-naming-pattern matcher: history.py, _detect_branch_naming_pattern *)

prefix_order ==
    <<"feature", "bugfix", "hotfix", "release", "refactor", "feat", "fix",
      "bug", "chore", "docs", "test", "perf", "style">>

extract_branch_name(branch) ==
    IF startswith(branch, "origin/") THEN SubSeq(branch, 8, Len(branch))
    ELSE IF contains(branch, "/")
    THEN LET parts == split(branch, "/")
             origin_idx == ListIndex(parts, "origin")
         IN IF origin_idx > 0 /\ origin_idx < Len(parts)
            THEN join(SubSeq(parts, origin_idx + 1, Len(parts)), "/")
            ELSE branch
    ELSE branch

\* the branches whose extracted name enters feature_branches (one entry each)
naming_feature_branches(bs) ==
    {b \in bs : /\ ~startswith(b, "HEAD")
                /\ ~IsBlank(b)
                /\ lower(extract_branch_name(b)) \notin main_branches}

dash_count(fb, prefix) ==
    Cardinality({b \in fb :
        startswith(lower(extract_branch_name(b)), prefix \o "-")})

slash_count(fb, prefix) ==
    Cardinality({b \in fb :
        startswith(lower(extract_branch_name(b)), prefix \o "/")})

\* variant: the 10% rounded up
naming_threshold_rounded_up(total) == Max(1, (total + 9) \div 10)

\* threshold = max(1, int(total * 0.1))
naming_threshold(total) == Max(1, total \div 10)

DictSet(d, k, v) == [x \in (DOMAIN d) \cup {k} |-> IF x = k THEN v ELSE d[x]]
DictPop(d, k) == [x \in (DOMAIN d) \ {k} |-> d[x]]

\* variant: feat is recorded like every other prefix
naming_step_no_conflict_rule(patterns, fb, prefix) ==
    LET threshold == naming_threshold(Cardinality(fb))
        sep == IF slash_count(fb, prefix) >= threshold THEN "/"
               ELSE IF dash_count(fb, prefix) >= threshold THEN "-"
               ELSE ""
    IN IF sep = "" THEN patterns
       ELSE DictSet(patterns, prefix, prefix \o sep \o "{name}")

\* one iteration of "for prefix in prefix_order"
naming_step(patterns, fb, prefix) ==
    LET threshold == naming_threshold(Cardinality(fb))
        sep == IF slash_count(fb, prefix) >= threshold THEN "/"
               ELSE IF dash_count(fb, prefix) >= threshold THEN "-"
               ELSE ""
    IN IF sep = "" THEN patterns
       ELSE IF prefix = "feat"
       THEN IF "feature" \notin DOMAIN patterns
            THEN DictSet(patterns, "feat", "feat" \o sep \o "{name}")
            ELSE patterns
       ELSE IF prefix = "feature"
       THEN DictSet(DictPop(patterns, "feat"), "feature",
                    "feature" \o sep \o "{name}")
       ELSE DictSet(patterns, prefix, prefix \o sep \o "{name}")

\* the patterns dict after the first k prefixes
RECURSIVE naming_patterns(_, _)
naming_patterns(fb, k) ==
    IF k = 0 THEN <<>>
    ELSE naming_step(naming_patterns(fb, k - 1), fb, prefix_order[k])

\* variant: the patterns are joined in catalogue order, not sorted
_detect_branch_naming_pattern_unsorted(bs) ==
    LET fb == naming_feature_branches(bs)
        patterns == naming_patterns(fb, Len(prefix_order))
        in_order == SelectSeq(prefix_order, LAMBDA p : p \in DOMAIN patterns)
    IN IF DOMAIN patterns = {} THEN PyNone
       ELSE PyStr(join([i \in 1..Len(in_order) |-> patterns[in_order[i]]], ", "))

\* variant: the 30% rounded up
generic_threshold_rounded_up(total) == Max(1, (total * 3 + 9) \div 10)

\* max(1, int(total * 0.3))
generic_threshold(total) == Max(1, (total * 3) \div 10)

_detect_branch_naming_pattern(bs) ==
    IF bs = {} THEN PyNone
    ELSE LET fb == naming_feature_branches(bs)
             total == Cardinality(fb)
             patterns == naming_patterns(fb, Len(prefix_order))
             dash_separated == Cardinality({b \in fb :
                 /\ contains(extract_branch_name(b), "-")
                 /\ ~startswith(extract_branch_name(b), "-")})
             slash_separated == Cardinality({b \in fb :
                 /\ contains(extract_branch_name(b), "/")
                 /\ ~startswith(extract_branch_name(b), "/")})
         IN IF fb = {} THEN PyNone
            ELSE IF DOMAIN patterns = {}
            THEN IF dash_separated >= generic_threshold(total)
                 THEN PyStr("{type}-{name}")
                 ELSE IF slash_separated >= generic_threshold(total)
                 THEN PyStr("{type}/{name}")
                 ELSE PyNone
            ELSE PyStr(join(sorted(Range(patterns)), ", "))

-----------------------------------------------------------------------------
(* The branch detectors called on their own *)

BranchNames ==
    {"main", "Master", "develop", "DEV", "feature/login", "feature/logout",
     "fix/crash", "fix-typo", "feat-ui", "hotfix", "release/1.0",
     "origin/bugfix/a", "team/origin/docs-api", "HEAD -> origin/main", "wip"}

\* branch names with no separator and no catalogue prefix
PlainBranches ==
    <<"t01", "t02", "t03", "t04", "t05", "t06", "t07", "t08", "t09", "t10",
      "t11", "t12", "t13", "t14", "t15", "t16", "t17", "t18">>

\* branches of one prefix in both forms, and branches with a separator only
SeparatorBranches ==
    {"fix/a", "fix/b", "fix-c", "fix-d", "my-topic", "our-topic", "new-topic",
     "team/topic"}

\* repositories with many branches: some plain ones and a few with separators
LargeBranchInputs ==
    {{PlainBranches[i] : i \in 1..n} \cup S :
        n \in {3, 9, 18}, S \in SUBSET SeparatorBranches}

BranchInputs ==
    {S \in SUBSET BranchNames : Cardinality(S) <= MaxBranches}
        \cup LargeBranchInputs

\* no thread uses the CodeIndex client manager
NoThreads ==
    /\ _instance = 0 /\ _lock = 0 /\ managers = <<>> /\ clients = <<>>
    /\ threads = <<>> /\ db_files = {}

Unused ==
    /\ use_llm = FALSE /\ has_api_key = FALSE /\ repo = "unset"
    /\ returncodes = <<>>
    /\ timestamps = "unset" /\ authors = "unset" /\ commit_messages = "unset"
    /\ branches = "unset" /\ tags = "unset" /\ locals = "unset"
    /\ llm_outcome = "unset" /\ llm_result = "unset" /\ exc = ""
    /\ http_requests = 0 /\ raised = "" /\ result = "unset"

InitBranches ==
    /\ pc = "call"
    /\ arg \in BranchInputs
    /\ ret = [fn |-> "", value |-> PyNone]
    /\ Unused
    /\ NoThreads

Return(fn, value) ==
    /\ pc = "call"
    /\ pc' = "returned"
    /\ ret' = [fn |-> fn, value |-> value]
    /\ UNCHANGED <<use_llm, has_api_key, repo, returncodes, timestamps, authors,
                   commit_messages, branches, tags, locals, llm_outcome,
                   llm_result, exc, http_requests, raised, result, arg, managerVars>>

CallDetectBranchStrategy ==
    Return("_detect_branch_strategy", _detect_branch_strategy(arg))

CallDetectBranchTypes ==
    Return("_detect_branch_types", _detect_branch_types(arg))

CallDetectBranchNamingPattern ==
    Return("_detect_branch_naming_pattern", _detect_branch_naming_pattern(arg))

NextBranches ==
    \/ CallDetectBranchStrategy
    \/ CallDetectBranchTypes
    \/ CallDetectBranchNamingPattern

SpecBranches == InitBranches /\ [][NextBranches]_vars

-----------------------------------------------------------------------------
(* Commit-convention matcher: history.py, _detect_commit_convention *)

\* s[i] (1-based), "" outside the string
CharAt(s, i) == IF 1 <= i /\ i <= Len(s) THEN SubSeq(s, i, i) ELSE ""

conventional_types ==
    {"feat", "fix", "docs", "style", "refactor", "test", "chore", "perf", "ci",
     "build", "revert"}

angular_types == conventional_types \cup {"feat!", "fix!"}

\* re.compile(r"^(t1|t2|...)(\(.+\))?:", re.IGNORECASE).match(msg)
type_pattern_match(types, msg) ==
    \E t \in types :
        /\ startswith(lower(msg), t)
        /\ \/ CharAt(msg, Len(t) + 1) = ":"
           \/ /\ CharAt(msg, Len(t) + 1) = "("
              /\ \E j \in (Len(t) + 3)..Len(msg) :
                    CharAt(msg, j) = ")" /\ CharAt(msg, j + 1) = ":"

conventional_pattern(msg) == type_pattern_match(conventional_types, msg)

angular_pattern(msg) == type_pattern_match(angular_types, msg)

\* sum(1 for x in xs if P(x))
CountIf(xs, P(_)) == Cardinality({i \in 1..Len(xs) : P(xs[i])})

\* count >= len(xs) * 0.5
AtLeastHalf(count, xs) == 2 * count >= Len(xs)

\* variant: a strict majority is required
_detect_commit_convention_strict(messages) ==
    IF messages = <<>> THEN PyNone
    ELSE IF 2 * CountIf(messages, conventional_pattern) > Len(messages)
    THEN PyStr("conventional-commits")
    ELSE IF 2 * CountIf(messages, angular_pattern) > Len(messages)
    THEN PyStr("angular-style")
    ELSE PyNone

\* any(msg.startswith(("Merge", "merge")) for msg in messages[:10])
merge_commits_first(messages) ==
    \E i \in 1..Len(messages) :
        /\ i <= 10
        /\ (startswith(messages[i], "Merge") \/ startswith(messages[i], "merge"))

\* variant: the merge test comes first and looks at the newest subject only
_detect_commit_convention_newest_merge(messages) ==
    IF messages = <<>> THEN PyNone
    ELSE IF merge_commits_first(SubSeq(messages, 1, 1)) THEN PyNone
    ELSE IF AtLeastHalf(CountIf(messages, conventional_pattern), messages)
    THEN PyStr("conventional-commits")
    ELSE IF AtLeastHalf(CountIf(messages, angular_pattern), messages)
    THEN PyStr("angular-style")
    ELSE PyNone

_detect_commit_convention(messages) ==
    IF messages = <<>> THEN PyNone
    ELSE IF AtLeastHalf(CountIf(messages, conventional_pattern), messages)
    THEN PyStr("conventional-commits")
    ELSE IF AtLeastHalf(CountIf(messages, angular_pattern), messages)
    THEN PyStr("angular-style")
    ELSE IF merge_commits_first(messages) THEN PyNone
    ELSE PyNone

-----------------------------------------------------------------------------
(* Tag-naming-convention matcher: history.py, _detect_tag_naming_convention *)

AllDigits(s) == s # "" /\ \A i \in 1..Len(s) : IsDigit(Char(s, i))

Sub(s, i, j) == IF i > j THEN "" ELSE SubSeq(s, i, j)

\* [a-zA-Z0-9.-]
IsPrereleaseChar(c) ==
    \/ c \in UpperChars \/ c \in LowerChars \/ IsDigit(c)
    \/ c = "." \/ c = "-"

\* ^v?\d+\.\d+\.\d+(-[a-zA-Z0-9.-]+)?$
semver_pattern(tag) ==
    LET s == IF startswith(tag, "v") THEN Sub(tag, 2, Len(tag)) ELSE tag
        n == Len(s)
    IN \E i \in 2..n : \E j \in (i + 2)..n : \E k \in (j + 1)..n :
          /\ AllDigits(Sub(s, 1, i - 1))
          /\ Char(s, i) = "."
          /\ AllDigits(Sub(s, i + 1, j - 1))
          /\ Char(s, j) = "."
          /\ AllDigits(Sub(s, j + 1, k))
          /\ \/ k = n
             \/ /\ k + 2 <= n
                /\ Char(s, k + 1) = "-"
                /\ \A m \in (k + 2)..n : IsPrereleaseChar(Char(s, m))

IsDotOrDash(c) == c = "." \/ c = "-"

\* ^\d{4}[.-]\d{1,2}([.-]\d{1,2})?$
calver_pattern(tag) ==
    LET n == Len(tag)
    IN /\ n >= 6
       /\ AllDigits(Sub(tag, 1, 4))
       /\ IsDotOrDash(Char(tag, 5))
       /\ \E k \in 6..7 :
             /\ k <= n
             /\ AllDigits(Sub(tag, 6, k))
             /\ \/ k = n
                \/ /\ IsDotOrDash(CharAt(tag, k + 1))
                   /\ n - (k + 1) \in 1..2
                   /\ AllDigits(Sub(tag, k + 2, n))

\* ^(v|version|release|r)\d+(\.\d+)?$ with re.IGNORECASE
simple_pattern(tag) ==
    \E p \in {"v", "version", "release", "r"} :
        /\ startswith(lower(tag), p)
        /\ LET s == Sub(tag, Len(p) + 1, Len(tag))
           IN \/ AllDigits(s)
              \/ \E i \in 2..(Len(s) - 1) :
                    /\ AllDigits(Sub(s, 1, i - 1))
                    /\ Char(s, i) = "."
                    /\ AllDigits(Sub(s, i + 1, Len(s)))

\* ^\d{8}$|^\d{4}-\d{2}-\d{2}$
date_pattern(tag) ==
    \/ Len(tag) = 8 /\ AllDigits(tag)
    \/ /\ Len(tag) = 10
       /\ AllDigits(Sub(tag, 1, 4)) /\ Char(tag, 5) = "-"
       /\ AllDigits(Sub(tag, 6, 7)) /\ Char(tag, 8) = "-"
       /\ AllDigits(Sub(tag, 9, 10))

\* tag_names = [tag[0] for tag in tags]
TagNamesOf(tgs) == [i \in 1..Len(tgs) |-> tgs[i][1]]

\* variant: calendar versioning is tried before semantic versioning
_detect_tag_naming_convention_calver_first(tgs) ==
    IF tgs = <<>> THEN PyNone
    ELSE LET tag_names == TagNamesOf(tgs)
         IN IF AtLeastHalf(CountIf(tag_names, calver_pattern), tag_names)
            THEN PyStr("calendar-versioning")
            ELSE IF AtLeastHalf(CountIf(tag_names, semver_pattern), tag_names)
            THEN PyStr("semantic-versioning")
            ELSE IF AtLeastHalf(CountIf(tag_names, simple_pattern), tag_names)
            THEN PyStr("simple-versioning")
            ELSE IF AtLeastHalf(CountIf(tag_names, date_pattern), tag_names)
            THEN PyStr("date-based")
            ELSE PyNone

_detect_tag_naming_convention(tgs) ==
    IF tgs = <<>> THEN PyNone
    ELSE LET tag_names == TagNamesOf(tgs)
         IN IF AtLeastHalf(CountIf(tag_names, semver_pattern), tag_names)
            THEN PyStr("semantic-versioning")
            ELSE IF AtLeastHalf(CountIf(tag_names, calver_pattern), tag_names)
            THEN PyStr("calendar-versioning")
            ELSE IF AtLeastHalf(CountIf(tag_names, simple_pattern), tag_names)
            THEN PyStr("simple-versioning")
            ELSE IF AtLeastHalf(CountIf(tag_names, date_pattern), tag_names)
            THEN PyStr("date-based")
            ELSE PyNone

-----------------------------------------------------------------------------
(* The commit and tag matchers called on their own *)

SeqsUpTo(S, n) == UNION {[1..k -> S] : k \in 0..n}

CommitSubjects ==
    {"feat: add login", "fix(ui): crash", "feat!: drop v1", "FIX: typo",
     "feat(): x", "Merge branch dev"}

CommitInputs == SeqsUpTo(CommitSubjects, MaxCommits)

InitCommits ==
    /\ pc = "call"
    /\ arg \in CommitInputs
    /\ ret = [fn |-> "", value |-> PyNone]
    /\ Unused
    /\ NoThreads

CallDetectCommitConvention ==
    Return("_detect_commit_convention", _detect_commit_convention(arg))

NextCommits == CallDetectCommitConvention

SpecCommits == InitCommits /\ [][NextCommits]_vars

TagNames ==
    {"v1.0.0", "v1.2.0", "v2.0.0", "1.0.0-beta.1", "2024.01", "2024-01-15",
     "20240115", "r1.0", "2024.1.5", "latest"}

\* the matcher reads the names only: every tag carries creation time 0 here
TagInputs == SeqsUpTo({<<name, 0>> : name \in TagNames}, MaxTags)

InitTags ==
    /\ pc = "call"
    /\ arg \in TagInputs
    /\ ret = [fn |-> "", value |-> PyNone]
    /\ Unused
    /\ NoThreads

CallDetectTagNamingConvention ==
    Return("_detect_tag_naming_convention", _detect_tag_naming_convention(arg))

NextTags == CallDetectTagNamingConvention

SpecTags == InitTags /\ [][NextTags]_vars

-----------------------------------------------------------------------------
(* MetricsComputer, ReleaseSignalClassifier, recent-tags counter.          *)
(* Times are integers (seconds).  The code computes in binary floating     *)
(* point: where the exact quotient lies on a rounding tie or on a          *)
(* threshold, the rounding errors of the float divisions decide, and the   *)
(* operators below return the set of values the float result can take.     *)
(* Away from ties and thresholds that set is a singleton.                  *)

SecondsPerDay == 24 * 3600
SecondsPerWeek == 7 * 24 * 3600

RECURSIVE InsertSorted(_, _)
InsertSorted(xs, x) ==
    IF xs = <<>> THEN <<x>>
    ELSE IF x <= Head(xs) THEN <<x>> \o xs
    ELSE <<Head(xs)>> \o InsertSorted(Tail(xs), x)

\* list.sort() / sorted() on integers
RECURSIVE SortInts(_)
SortInts(xs) ==
    IF xs = <<>> THEN <<>> ELSE InsertSorted(SortInts(Tail(xs)), Head(xs))

ListMax(xs) == CHOOSE m \in Range(xs) : \A y \in Range(xs) : y <= m
ListMin(xs) == CHOOSE m \in Range(xs) : \A y \in Range(xs) : m <= y

\* sum of the differences of consecutive elements
RECURSIVE SumDeltas(_)
SumDeltas(xs) ==
    IF Len(xs) < 2 THEN 0 ELSE (xs[2] - xs[1]) + SumDeltas(Tail(xs))

\* round(num / den) for floats: the nearest integer; both neighbours on a tie
RoundedValues(num, den) ==
    LET q == num \div den
        r == num % den
    IN IF 2 * r < den THEN {q}
       ELSE IF 2 * r > den THEN {q + 1}
       ELSE {q, q + 1}

\* variant: the divisor is not floored to one day ("max(..., 1 / 7)" missing)
_commits_per_week_no_floor(ts) ==
    IF Len(ts) < 2 THEN {PyFloat(100 * Len(ts))}
    ELSE LET span_seconds == ListMax(ts) - ListMin(ts)
         IN IF span_seconds > 0
            THEN {PyFloat(h) :
                    h \in RoundedValues(Len(ts) * SecondsPerWeek * 100,
                                        span_seconds)}
            ELSE {PyFloat(0)}

_commits_per_week(ts) ==
    IF Len(ts) < 2 THEN {PyFloat(100 * Len(ts))}
    ELSE LET span_seconds == ListMax(ts) - ListMin(ts)
         IN IF 7 * span_seconds >= SecondsPerWeek
            THEN {PyFloat(h) :
                    h \in RoundedValues(Len(ts) * SecondsPerWeek * 100,
                                        span_seconds)}
            ELSE {PyFloat(Len(ts) * 7 * 100)}

\* d / (24 * 3600) is exact in binary floating point for every d in sorted xs
ExactDayDeltas(xs) ==
    \A i \in 2..Len(xs) : (xs[i] - xs[i - 1]) % 675 = 0

\* "avg_delta < days" for the mean of the day-deltas of sorted xs: on the
\* threshold itself inexact deltas may sum to either side
MeanBelow(xs, days) ==
    LET total == SumDeltas(xs)
        bound == days * SecondsPerDay * (Len(xs) - 1)
    IN IF total = bound /\ ~ExactDayDeltas(xs) THEN {TRUE, FALSE}
       ELSE {total < bound}

\* tags are <<name, timestamp>> pairs
TagTimesOf(tgs) == [i \in 1..Len(tgs) |-> tgs[i][2]]

\* variant: a single tag gives no signal ("tagged" is never returned)
_derive_release_signal_from_tags_no_single(tgs, ts) ==
    IF tgs = <<>> \/ ts = <<>> THEN {PyNone}
    ELSE IF Len(tgs) < 2 THEN {PyNone}
    ELSE LET sorted_times == SortInts(TagTimesOf(tgs))
         IN {IF b7 THEN PyStr("frequent-releases")
             ELSE IF b30 THEN PyStr("monthly-releases")
             ELSE IF b90 THEN PyStr("quarterly-releases")
             ELSE PyStr("infrequent-releases") :
             <<b7, b30, b90>> \in MeanBelow(sorted_times, 7)
                                  \X MeanBelow(sorted_times, 30)
                                  \X MeanBelow(sorted_times, 90)}

_derive_release_signal_from_tags(tgs, ts) ==
    IF tgs = <<>> \/ ts = <<>> THEN {PyNone}
    ELSE IF Len(tgs) < 2 THEN {PyStr("tagged")}
    ELSE LET sorted_times == SortInts(TagTimesOf(tgs))
         IN {IF b7 THEN PyStr("frequent-releases")
             ELSE IF b30 THEN PyStr("monthly-releases")
             ELSE IF b90 THEN PyStr("quarterly-releases")
             ELSE PyStr("infrequent-releases") :
             <<b7, b30, b90>> \in MeanBelow(sorted_times, 7)
                                  \X MeanBelow(sorted_times, 30)
                                  \X MeanBelow(sorted_times, 90)}

_derive_release_signal_from_commits(ts) ==
    IF Len(ts) < 5 THEN {PyNone}
    ELSE LET sorted_times == SortInts(ts)
         IN {IF b3 THEN PyStr("fast-iteration")
             ELSE IF b14 THEN PyStr("weekly-activity")
             ELSE IF b45 THEN PyStr("monthly-activity")
             ELSE PyStr("infrequent-activity") :
             <<b3, b14, b45>> \in MeanBelow(sorted_times, 3)
                                  \X MeanBelow(sorted_times, 14)
                                  \X MeanBelow(sorted_times, 45)}

\* variant: a tag exactly one year before the latest commit is not counted
_count_recent_tags_strict(tgs, ts) ==
    IF tgs = <<>> \/ ts = <<>> THEN PyInt(0)
    ELSE LET one_year_ago == ListMax(ts) - 365 * SecondsPerDay
         IN PyInt(Cardinality({i \in 1..Len(tgs) : tgs[i][2] > one_year_ago}))

_count_recent_tags(tgs, ts) ==
    IF tgs = <<>> \/ ts = <<>> THEN PyInt(0)
    ELSE LET one_year_ago == ListMax(ts) - 365 * SecondsPerDay
         IN PyInt(Cardinality({i \in 1..Len(tgs) : tgs[i][2] >= one_year_ago}))

-----------------------------------------------------------------------------
(* LLMConventionRefiner: llm.py *)

ConventionKeys ==
    {"commit_convention", "branch_naming_pattern", "tag_naming_convention"}

\* a key absent from the JSON object
Missing == [t |-> "missing", s |-> "", n |-> 0]

\* values a field of the JSON object may have
JsonValues ==
    {PyNone, PyStr(""), PyStr("custom/{name}"), PyInt(0), PyList(1)}

LLMFailures ==
    {"transport_error", "timeout", "http_status", "empty_content",
     "content_not_json", "json_not_object"}

Failure(kind) ==
    [kind |-> kind, commit_convention |-> Missing,
     branch_naming_pattern |-> Missing, tag_naming_convention |-> Missing]

\* every way the exchange with the endpoint can end
LLMOutcomes ==
    {Failure(k) : k \in LLMFailures}
    \cup [kind : {"object"}, commit_convention : JsonValues \cup {Missing},
          branch_naming_pattern : JsonValues \cup {Missing},
          tag_naming_convention : JsonValues \cup {Missing}]

\* the exception raised inside the try block of analyze_git_conventions
raw_exception(kind) ==
    CASE kind = "transport_error" -> "ConnectionError"
      [] kind = "timeout" -> "Timeout"
      [] kind = "http_status" -> "HTTPError"
      [] kind = "empty_content" -> "LLMError"
      [] kind = "content_not_json" -> "JSONDecodeError"
      [] kind = "json_not_object" -> "AttributeError"

\* the classes "except Exception" catches
ExceptionSubclasses ==
    {"ConnectionError", "Timeout", "HTTPError", "LLMError", "JSONDecodeError",
     "AttributeError"}

\* variant: only the JSON decode error is wrapped ("except Exception" missing)
wrap_exception_json_only(e) == IF e = "JSONDecodeError" THEN "LLMError" ELSE e

\* the except clauses of analyze_git_conventions: what leaves the method
wrap_exception(e) ==
    IF e = "JSONDecodeError" THEN "LLMError"
    ELSE IF e \in ExceptionSubclasses THEN "LLMError"
    ELSE e

\* variant: the constructor does not test the key
create_analyzer_no_key_check(has_key) == "LLMAnalyzer"

\* llm.py, create_analyzer: LLMAnalyzer.__init__ raises ValueError when
\* neither the parameter nor the environment holds a key, and create_analyzer
\* turns that into None
create_analyzer(has_key) == IF has_key THEN "LLMAnalyzer" ELSE "None"

\* a dict with the three convention keys, or the empty dict
Dict(keys, cc, bnp, tnc) ==
    [keys |-> keys, commit_convention |-> cc, branch_naming_pattern |-> bnp,
     tag_naming_convention |-> tnc]

EmptyDict == Dict({}, PyNone, PyNone, PyNone)

\* d.get(k)
dict_get(d, k) == IF k \in d.keys THEN d[k] ELSE PyNone

\* result.get(k) on the parsed JSON object
json_get(o, k) == IF o[k] = Missing THEN PyNone ELSE o[k]

\* the dict analyze_git_conventions returns for a JSON object
analyze_git_conventions(o) ==
    Dict(ConventionKeys, json_get(o, "commit_convention"),
         json_get(o, "branch_naming_pattern"),
         json_get(o, "tag_naming_convention"))

-----------------------------------------------------------------------------
(* InferenceOrchestrator: history.py, analyze_git_history *)

HistoryMetrics(a1, a2, a3, a4, a5, a6, a7, a8, a9) ==
    [average_commits_per_week |-> a1, active_contributors |-> a2,
     recent_release_signal |-> a3, branch_strategy |-> a4, branch_types |-> a5,
     commit_convention |-> a6, branch_naming_pattern |-> a7,
     tag_naming_convention |-> a8, recent_tags_count |-> a9]

NullMetrics ==
    HistoryMetrics(PyNone, PyNone, PyNone, PyNone, <<>>, PyNone, PyNone, PyNone,
                   PyNone)

\* variant: the reads raise an exception the orchestrator does not catch
git_read_error_uncaught == "CalledProcessError"

\* the exception a git read raises on a non-zero exit code
git_read_error == "FileNotFoundError"

\* variant: the cadence is computed for an empty sample too ("if timestamps"
\* missing)
compute_locals_unguarded(ts, au, br, tg, cadence, from_tags, from_commits) ==
    [cadence |-> cadence,
     release_signal |->
         IF ~Truthy(from_tags) /\ ts # <<>> THEN from_commits ELSE from_tags,
     contributors |-> IF au # {} THEN PyInt(Cardinality(au)) ELSE PyNone,
     branch_strategy |-> _detect_branch_strategy(br),
     branch_types |-> _detect_branch_types(br),
     recent_tags_count |->
         IF tg # <<>> /\ ts # <<>> THEN _count_recent_tags(tg, ts) ELSE PyNone,
     commit_convention |-> PyNone,
     branch_naming_pattern |-> PyNone,
     tag_naming_convention |-> PyNone]

\* lines 64-81: everything computed before the conventions; cadence,
\* from_tags and from_commits are what the three float computations returned
compute_locals(ts, au, br, tg, cadence, from_tags, from_commits) ==
    [cadence |-> IF ts # <<>> THEN cadence ELSE PyNone,
     release_signal |->
         IF ~Truthy(from_tags) /\ ts # <<>> THEN from_commits ELSE from_tags,
     contributors |-> IF au # {} THEN PyInt(Cardinality(au)) ELSE PyNone,
     branch_strategy |-> _detect_branch_strategy(br),
     branch_types |-> _detect_branch_types(br),
     recent_tags_count |->
         IF tg # <<>> /\ ts # <<>> THEN _count_recent_tags(tg, ts) ELSE PyNone,
     commit_convention |-> PyNone,
     branch_naming_pattern |-> PyNone,
     tag_naming_convention |-> PyNone]

\* variant: no fallback, the refiner's value is kept as it is
merge_field_no_fallback(llm_value, rule_value) == llm_value

\* variant: the rule-based value wins whenever it exists
merge_field_rule_first(llm_value, rule_value) ==
    IF Truthy(rule_value) THEN rule_value ELSE llm_value

\* lines 104-109: "if not x: x = <rule-based detector>"
merge_field(llm_value, rule_value) ==
    IF ~Truthy(llm_value) THEN rule_value ELSE llm_value

\* variant: two positional arguments of the constructor call are exchanged
return_metrics_swapped(l) ==
    HistoryMetrics(l.cadence, l.contributors, l.release_signal,
                   l.branch_naming_pattern, l.branch_types, l.commit_convention,
                   l.branch_strategy, l.tag_naming_convention,
                   l.recent_tags_count)

\* lines 111-121
return_metrics(l) ==
    HistoryMetrics(l.cadence, l.contributors, l.release_signal,
                   l.branch_strategy, l.branch_types, l.commit_convention,
                   l.branch_naming_pattern, l.tag_naming_convention,
                   l.recent_tags_count)

Commit(ts, author, subject) == [ts |-> ts, author |-> author, subject |-> subject]

\* commit logs, newest first
CommitLogs ==
    {<<>>,
     <<Commit(1000, "ann <ann@x.io>", "initial import")>>,
     <<Commit(8 * SecondsPerDay, "ann <ann@x.io>", "feat: add login"),
       Commit(6 * SecondsPerDay, "bob <bob@x.io>", "fix(ui): crash"),
       Commit(4 * SecondsPerDay, "ann <ann@x.io>", "FIX: typo"),
       Commit(2 * SecondsPerDay, "bob <bob@x.io>", "Merge branch dev"),
       Commit(0, "ann <ann@x.io>", "feat: start")>>,
     <<Commit(40 * SecondsPerDay, "bob <bob@x.io>", "Merge branch dev"),
       Commit(3 * SecondsPerDay, "bob <bob@x.io>", "feat!: drop v1"),
       Commit(0, "bob <bob@x.io>", "fix!: drop v0")>>}

BranchSets ==
    {{},
     {"main", "feature/login", "feature/logout", "fix/crash"},
     {"develop", "feat-ui", "hotfix"},
     {"Staging", "HEAD -> origin/main", "fix-typo"}}

TagLists ==
    {<<>>,
     <<<<"v1.0.0", 0>>, <<"v1.2.0", 5 * SecondsPerDay>>,
       <<"v2.0.0", 10 * SecondsPerDay>>, <<"latest", 95 * SecondsPerDay>>>>,
     <<<<"20240115", 500 * SecondsPerDay>>, <<"2024-01-15", 0>>>>}

\* a log of commits by one author at the given times, newest first
LogAt(times) ==
    [i \in 1..Len(times) |-> Commit(times[i], "ann <ann@x.io>", "fix: step")]

\* commit samples for the cadence and the commit-based release signal:
\* five commits whose mean distance is exactly 3 days while no single
\* distance is a whole number of days; five commits 10, 30 and 100 days
\* apart; ten commits spread evenly over exactly 7 days; two commits one
\* hour apart
CadenceLogs ==
    {LogAt(<<1036800, 957469, 856980, 135999, 0>>),
     LogAt([i \in 1..5 |-> (5 - i) * 10 * SecondsPerDay]),
     LogAt([i \in 1..5 |-> (5 - i) * 30 * SecondsPerDay]),
     LogAt([i \in 1..5 |-> (5 - i) * 100 * SecondsPerDay]),
     LogAt([i \in 1..10 |-> (10 - i) * 67200]),
     LogAt(<<3600, 0>>)}

\* tag lists for the tag-based release signal and the recent-tags count: no
\* tag; one tag; four tags whose mean distance is exactly 7 days while no
\* single distance is a whole number of days; three tags 7 days apart, listed
\* out of order; two tags 2 days apart; three tags at days 0, 35 and 390;
\* four tags with the extremes of the first four, 7 days apart
ReleaseTagLists ==
    {<<>>,
     <<<<"v1.0.0", 3 * SecondsPerDay>>>>,
     <<<<"v1.0.0", 0>>, <<"v1.1.0", 366171>>, <<"v1.2.0", 1814027>>,
       <<"v1.3.0", 1814400>>>>,
     <<<<"v1.0.0", 0>>, <<"v1.1.0", 604800>>, <<"v1.2.0", 1209600>>,
       <<"v1.3.0", 1814400>>>>,
     <<<<"v3", 14 * SecondsPerDay>>, <<"v1", 0>>, <<"v2", 7 * SecondsPerDay>>>>,
     <<<<"r2", 2 * SecondsPerDay>>, <<"r1", 0>>>>,
     <<<<"v1", 0>>, <<"v2", 35 * SecondsPerDay>>, <<"v3", 390 * SecondsPerDay>>>>}

\* the sample read from a repository is what "git log -n<max_commits>" prints
\* (nothing for max_commits = 0), so any tag list goes with any sample
Repos ==
    [commits : CommitLogs, branches : BranchSets, tags : TagLists]
    \cup [commits : CadenceLogs \cup {<<>>}, branches : {{}},
          tags : ReleaseTagLists]

GitExitCodes == {0, 128}

Init ==
    /\ pc = "read_timestamps"
    /\ use_llm \in BOOLEAN
    /\ has_api_key \in BOOLEAN
    /\ repo \in Repos
    /\ returncodes = <<>>
    /\ timestamps = "unset" /\ authors = "unset" /\ commit_messages = "unset"
    /\ branches = "unset" /\ tags = "unset" /\ locals = "unset"
    /\ llm_outcome = "unset" /\ llm_result = "unset" /\ exc = ""
    /\ http_requests = 0 /\ raised = "" /\ result = "unset"
    /\ arg = "unset" /\ ret = "unset"
    /\ NoThreads

\* a git command ran: on a non-zero exit code the read raises
GitRead(returncode, next_pc) ==
    /\ returncodes' = Append(returncodes, returncode)
    /\ exc' = IF returncode # 0 THEN git_read_error ELSE ""
    /\ pc' = IF returncode # 0 THEN "except" ELSE next_pc

ReadTimestamps ==
    /\ pc = "read_timestamps"
    /\ \E returncode \in GitExitCodes :
          /\ GitRead(returncode, "read_authors")
          /\ timestamps' =
                IF returncode # 0 THEN timestamps
                ELSE [i \in 1..Len(repo.commits) |-> repo.commits[i].ts]
    /\ UNCHANGED <<use_llm, has_api_key, repo, authors, commit_messages,
                   branches, tags, locals, llm_outcome, llm_result,
                   http_requests, raised, result, arg, ret, managerVars>>

ReadAuthors ==
    /\ pc = "read_authors"
    /\ \E returncode \in GitExitCodes :
          /\ GitRead(returncode, "read_messages")
          /\ authors' =
                IF returncode # 0 THEN authors
                ELSE {repo.commits[i].author : i \in 1..Len(repo.commits)}
    /\ UNCHANGED <<use_llm, has_api_key, repo, timestamps, commit_messages,
                   branches, tags, locals, llm_outcome, llm_result,
                   http_requests, raised, result, arg, ret, managerVars>>

ReadMessages ==
    /\ pc = "read_messages"
    /\ \E returncode \in GitExitCodes :
          /\ GitRead(returncode, "read_branches")
          /\ commit_messages' =
                IF returncode # 0 THEN commit_messages
                ELSE SelectSeq([i \in 1..Len(repo.commits) |->
                                    repo.commits[i].subject],
                               LAMBDA line : ~IsBlank(line))
    /\ UNCHANGED <<use_llm, has_api_key, repo, timestamps, authors, branches,
                   tags, locals, llm_outcome, llm_result, http_requests, raised,
                   result, arg, ret, managerVars>>

ReadBranches ==
    /\ pc = "read_branches"
    /\ \E returncode \in GitExitCodes :
          /\ GitRead(returncode, "read_tags")
          /\ branches' = IF returncode # 0 THEN branches ELSE repo.branches
    /\ UNCHANGED <<use_llm, has_api_key, repo, timestamps, authors,
                   commit_messages, tags, locals, llm_outcome, llm_result,
                   http_requests, raised, result, arg, ret, managerVars>>

ReadTags ==
    /\ pc = "read_tags"
    /\ \E returncode \in GitExitCodes :
          /\ GitRead(returncode, "compute")
          /\ tags' = IF returncode # 0 THEN tags ELSE repo.tags
    /\ UNCHANGED <<use_llm, has_api_key, repo, timestamps, authors,
                   commit_messages, branches, locals, llm_outcome, llm_result,
                   http_requests, raised, result, arg, ret, managerVars>>

\* lines 61-62: "except FileNotFoundError: return HistoryMetrics(None, ...)"
ExceptFileNotFound ==
    /\ pc = "except"
    /\ pc' = "done"
    /\ exc' = ""
    /\ IF exc = "FileNotFoundError"
       THEN result' = NullMetrics /\ raised' = raised
       ELSE result' = result /\ raised' = exc
    /\ UNCHANGED <<use_llm, has_api_key, repo, returncodes, timestamps, authors,
                   commit_messages, branches, tags, locals, llm_outcome,
                   llm_result, http_requests, arg, ret, managerVars>>

\* variant: the refiner is called whatever use_llm is
after_compute_always_llm(use) == "analyze_with_llm"

\* lines 84 and 97: "if use_llm: llm_result = _analyze_with_llm(...) else: ..."
after_compute(use) == IF use THEN "analyze_with_llm" ELSE "rule_based"

\* lines 64-81; _commits_per_week sorts the list it is given in place
Compute ==
    /\ pc = "compute"
    /\ \E cadence \in _commits_per_week(timestamps) :
       \E from_tags \in _derive_release_signal_from_tags(tags, timestamps) :
       \E from_commits \in _derive_release_signal_from_commits(timestamps) :
          locals' = compute_locals(timestamps, authors, branches, tags,
                                   cadence, from_tags, from_commits)
    /\ timestamps' =
          IF Len(timestamps) >= 2 THEN SortInts(timestamps) ELSE timestamps
    /\ pc' = after_compute(use_llm)
    /\ UNCHANGED <<use_llm, has_api_key, repo, returncodes, authors,
                   commit_messages, branches, tags, llm_outcome, llm_result,
                   exc, http_requests, raised, result, arg, ret, managerVars>>

\* lines 97-101
RuleBased ==
    /\ pc = "rule_based"
    /\ locals' =
          [locals EXCEPT
             !.commit_convention = _detect_commit_convention(commit_messages),
             !.branch_naming_pattern = _detect_branch_naming_pattern(branches),
             !.tag_naming_convention = _detect_tag_naming_convention(tags)]
    /\ llm_result' = "None"
    /\ pc' = "fallback"
    /\ UNCHANGED <<use_llm, has_api_key, repo, returncodes, timestamps, authors,
                   commit_messages, branches, tags, llm_outcome, exc,
                   http_requests, raised, result, arg, ret, managerVars>>

\* _analyze_with_llm, line 454
llm_main_branches ==
    {"main", "master", "develop", "dev", "trunk", "production", "prod"}

\* _analyze_with_llm, lines 455-457: the branches handed to the analyzer
llm_feature_branches(bs) ==
    {b \in bs : lower(b) \notin llm_main_branches /\ ~startswith(b, "HEAD")}

\* _analyze_with_llm, line 460
tag_names(ts) == [i \in 1..Len(ts) |-> ts[i][1]]

CommitSampleLimit == 100
BranchSampleLimit == 50
TagSampleLimit == 50

\* xs[:n]
Take(xs, n) == SubSeq(xs, 1, Min(n, Len(xs)))

\* _analyze_with_llm line 463, then llm.py line 75: commit_messages[:100]
commit_samples(messages) ==
    Take(Take(messages, CommitSampleLimit), CommitSampleLimit)

\* llm.py line 76, branch_names[:50]: the branches are held without their
\* order, so the first 50 are any 50 of them
branch_samples(names) ==
    {S \in SUBSET names :
        Cardinality(S) = Min(BranchSampleLimit, Cardinality(names))}

\* llm.py line 77
tag_samples(names) == Take(names, TagSampleLimit)

\* variant: the request is sent again after a failure
after_llm_error_retry == "call_api"

\* _analyze_with_llm, lines 468-470: "except LLMError: return {}" goes on to
\* the assignments of lines 94-96
after_llm_error == "assign"

\* _analyze_with_llm, lines 444-451: without an analyzer the result is {}
AnalyzeWithLLM ==
    /\ pc = "analyze_with_llm"
    /\ IF create_analyzer(has_api_key) # "None"
       THEN pc' = "call_api" /\ llm_result' = llm_result
       ELSE pc' = "assign" /\ llm_result' = EmptyDict
    /\ UNCHANGED <<use_llm, has_api_key, repo, returncodes, timestamps, authors,
                   commit_messages, branches, tags, locals, llm_outcome, exc,
                   http_requests, raised, result, arg, ret, managerVars>>

\* llm.py, _call_api: one POST, ending in one of LLMOutcomes
CallApi ==
    /\ pc = "call_api"
    /\ http_requests < MaxRequests
    /\ http_requests' = http_requests + 1
    /\ \E o \in LLMOutcomes : llm_outcome' = o
    /\ pc' = "response"
    /\ UNCHANGED <<use_llm, has_api_key, repo, returncodes, timestamps, authors,
                   commit_messages, branches, tags, locals, llm_result, exc,
                   raised, result, arg, ret, managerVars>>

\* llm.py lines 83-99, then history.py lines 465-470 ("except LLMError")
Response ==
    /\ pc = "response"
    /\ IF llm_outcome.kind = "object"
       THEN /\ llm_result' = analyze_git_conventions(llm_outcome)
            /\ pc' = "assign"
            /\ raised' = raised
       ELSE LET e == wrap_exception(raw_exception(llm_outcome.kind))
            IN IF e = "LLMError"
               THEN /\ llm_result' = EmptyDict
                    /\ pc' = after_llm_error
                    /\ raised' = raised
               ELSE llm_result' = llm_result /\ pc' = "done" /\ raised' = e
    /\ UNCHANGED <<use_llm, has_api_key, repo, returncodes, timestamps, authors,
                   commit_messages, branches, tags, locals, llm_outcome, exc,
                   http_requests, result, arg, ret, managerVars>>

\* lines 94-96
AssignFromLLM ==
    /\ pc = "assign"
    /\ locals' =
          [locals EXCEPT
             !.commit_convention = dict_get(llm_result, "commit_convention"),
             !.branch_naming_pattern =
                 dict_get(llm_result, "branch_naming_pattern"),
             !.tag_naming_convention =
                 dict_get(llm_result, "tag_naming_convention")]
    /\ pc' = "fallback"
    /\ UNCHANGED <<use_llm, has_api_key, repo, returncodes, timestamps, authors,
                   commit_messages, branches, tags, llm_outcome, llm_result,
                   exc, http_requests, raised, result, arg, ret, managerVars>>

\* lines 104-121
FallbackAndReturn ==
    /\ pc = "fallback"
    /\ locals' =
          [locals EXCEPT
             !.commit_convention =
                 merge_field(@, _detect_commit_convention(commit_messages)),
             !.branch_naming_pattern =
                 merge_field(@, _detect_branch_naming_pattern(branches)),
             !.tag_naming_convention =
                 merge_field(@, _detect_tag_naming_convention(tags))]
    /\ result' = return_metrics(locals')
    /\ pc' = "done"
    /\ UNCHANGED <<use_llm, has_api_key, repo, returncodes, timestamps, authors,
                   commit_messages, branches, tags, llm_outcome, llm_result,
                   exc, http_requests, raised, arg, ret, managerVars>>

Next ==
    \/ ReadTimestamps
    \/ ReadAuthors
    \/ ReadMessages
    \/ ReadBranches
    \/ ReadTags
    \/ ExceptFileNotFound
    \/ Compute
    \/ RuleBased
    \/ AnalyzeWithLLM
    \/ CallApi
    \/ Response
    \/ AssignFromLLM
    \/ FallbackAndReturn

Spec == Init /\ [][Next]_vars

-----------------------------------------------------------------------------
(* Properties of analyze_git_history (specification Spec) *)

ScalarFields ==
    {"average_commits_per_week", "active_contributors", "recent_release_signal",
     "branch_strategy", "commit_convention", "branch_naming_pattern",
     "tag_naming_convention", "recent_tags_count"}

GitFailed == \E i \in 1..Len(returncodes) : returncodes[i] # 0

\* the rule-based matcher's value for a convention field, on the collected data
RuleBasedValue(k) ==
    CASE k = "commit_convention" -> _detect_commit_convention(commit_messages)
      [] k = "branch_naming_pattern" -> _detect_branch_naming_pattern(branches)
      [] k = "tag_naming_convention" -> _detect_tag_naming_convention(tags)

\* the call returned after one exchange with the endpoint
ReturnedAfterRequest == pc = "done" /\ http_requests = 1

\* C1: when one of the five git reads exits non-zero, analyze_git_history
\* raises nothing and returns a record whose scalar fields are all null and
\* whose branch_types is empty, whatever the earlier reads returned and
\* whatever the LLM settings are.
ClaimC1 ==
    (pc = "done" /\ GitFailed) =>
        /\ raised = ""
        /\ \A f \in ScalarFields : result[f] = PyNone
        /\ result.branch_types = <<>>

\* the third read failed after two reads of a non-empty history, LLM enabled
WitnessC1 ==
    /\ pc = "done"
    /\ returncodes = <<0, 0, 128>>
    /\ Len(timestamps) = 5
    /\ use_llm /\ has_api_key
    /\ raised = ""
    /\ result.branch_types = <<>>
    /\ result.commit_convention = PyNone

\* C2: with the LLM enabled, after every failing refiner outcome (transport
\* error, timeout, HTTP status, empty content, content that is not JSON, JSON
\* that is not an object) analyze_git_history raises nothing and the three
\* convention fields equal the rule-based matchers' values on the same data.
ClaimC2 ==
    (ReturnedAfterRequest /\ llm_outcome.kind \in LLMFailures) =>
        /\ raised = ""
        /\ \A k \in ConventionKeys : result[k] = RuleBasedValue(k)

\* the content was JSON but not an object; the rule-based values are returned
WitnessC2 ==
    /\ ReturnedAfterRequest
    /\ llm_outcome.kind = "json_not_object"
    /\ raised = ""
    /\ result.commit_convention = PyStr("conventional-commits")
    /\ result.branch_naming_pattern = PyStr("feature/{name}, fix/{name}")
    /\ result.tag_naming_convention = PyStr("semantic-versioning")

\* C3: the merge is per field: when the refiner's object has a convention
\* field null or missing, the returned field is the rule-based matcher's
\* value, whatever the object holds for the other two fields.
ClaimC3 ==
    (ReturnedAfterRequest /\ llm_outcome.kind = "object") =>
        /\ raised = ""
        /\ \A k \in ConventionKeys :
              llm_outcome[k] \in {PyNone, Missing} =>
                  result[k] = RuleBasedValue(k)

\* only branch_naming_pattern = "custom/{name}" is non-null in the response
WitnessC3 ==
    /\ ReturnedAfterRequest
    /\ llm_outcome.kind = "object"
    /\ llm_outcome.commit_convention = PyNone
    /\ llm_outcome.branch_naming_pattern = PyStr("custom/{name}")
    /\ llm_outcome.tag_naming_convention = PyNone
    /\ result.branch_naming_pattern = PyStr("custom/{name}")
    /\ result.commit_convention = PyStr("conventional-commits")
    /\ result.tag_naming_convention = PyStr("semantic-versioning")
    /\ RuleBasedValue("branch_naming_pattern")
           = PyStr("feature/{name}, fix/{name}")

\* C4 as stated: every non-null value the refiner returns for a convention
\* field is the value of that field in the returned record.
ClaimC4_AsStated ==
    (ReturnedAfterRequest /\ llm_outcome.kind = "object" /\ raised = "") =>
        \A k \in ConventionKeys :
            llm_outcome[k] \notin {PyNone, Missing} =>
                result[k] = llm_outcome[k]

\* C4: every truthy value the refiner returns for a convention field (not
\* null, not the empty string, not zero, not an empty container) is the value
\* of that field in the returned record, whatever the rule-based matcher
\* gives; a falsy value is replaced by the rule-based value.
ClaimC4 ==
    (ReturnedAfterRequest /\ llm_outcome.kind = "object") =>
        /\ raised = ""
        /\ \A k \in ConventionKeys :
              /\ Truthy(llm_outcome[k]) => result[k] = llm_outcome[k]
              /\ ~Truthy(llm_outcome[k]) => result[k] = RuleBasedValue(k)

\* the refiner's commit_convention replaces a non-null rule-based value
WitnessC4 ==
    /\ ReturnedAfterRequest
    /\ llm_outcome.kind = "object"
    /\ llm_outcome.commit_convention = PyStr("custom/{name}")
    /\ RuleBasedValue("commit_convention") = PyStr("conventional-commits")
    /\ result.commit_convention = PyStr("custom/{name}")
    /\ llm_outcome.tag_naming_convention = PyStr("")
    /\ result.tag_naming_convention = PyStr("semantic-versioning")

\* the fields no refiner outcome may influence
NonLLMFields(l) ==
    <<l.cadence, l.contributors, l.release_signal, l.branch_strategy,
      l.branch_types, l.recent_tags_count>>

NonLLMFieldsOfResult(r) ==
    <<r.average_commits_per_week, r.active_contributors,
      r.recent_release_signal, r.branch_strategy, r.branch_types,
      r.recent_tags_count>>

AfterCompute ==
    {"rule_based", "analyze_with_llm", "call_api", "response", "assign",
     "fallback"}

\* a step taken after the git-only fields were computed leaves them alone,
\* and the step that returns hands them over as computed
KeepsNonLLMFields ==
    pc \in AfterCompute =>
        /\ NonLLMFields(locals') = NonLLMFields(locals)
        /\ (pc' = "done" /\ raised' = "") =>
              /\ NonLLMFieldsOfResult(result') = NonLLMFields(locals)
              /\ result'.branch_strategy = _detect_branch_strategy(branches)
              /\ result'.branch_types = _detect_branch_types(branches)
              /\ result'.active_contributors =
                    (IF authors = {} THEN PyNone
                     ELSE PyInt(Cardinality(authors)))
              /\ result'.average_commits_per_week
                    \in (_commits_per_week(timestamps) \cup {PyNone})

\* C5: branch_strategy, branch_types, average_commits_per_week,
\* active_contributors, release_signal and recent_tags_count are fixed from
\* the git data before the refiner is reached; no later step (LLM disabled,
\* unavailable, failing, or answering anything) changes them, and they are
\* returned as computed, the branch fields and the counts being those of the
\* rule-based detectors on the collected data.
ClaimC5 == [][KeepsNonLLMFields]_vars

\* the refiner answered all three fields; the other fields are the git ones
WitnessC5 ==
    /\ ReturnedAfterRequest
    /\ llm_outcome.kind = "object"
    /\ \A k \in ConventionKeys : llm_outcome[k] = PyStr("custom/{name}")
    /\ result.branch_naming_pattern = PyStr("custom/{name}")
    /\ result.branch_strategy = PyStr("feature-branch")
    /\ result.active_contributors = PyInt(2)
    /\ result.average_commits_per_week = PyFloat(438)
    /\ result.recent_release_signal = PyStr("quarterly-releases")

\* the five git reads succeeded and analyze_git_history returned
ReturnedRecord == pc = "done" /\ ~GitFailed /\ raised = ""

\* the timestamps of the collected tags, ascending
SortedTagTimes == SortInts(TagTimesOf(tags))

\* the label of a mean distance of total / gaps seconds, for the thresholds
\* t1 < t2 < t3 in days; the comparison is exact (in seconds)
BandLabel(total, gaps, t1, t2, t3, labels) ==
    IF total < t1 * SecondsPerDay * gaps THEN labels[1]
    ELSE IF total < t2 * SecondsPerDay * gaps THEN labels[2]
    ELSE IF total < t3 * SecondsPerDay * gaps THEN labels[3]
    ELSE labels[4]

TagLabels ==
    <<"frequent-releases", "monthly-releases", "quarterly-releases",
      "infrequent-releases">>

CommitLabels ==
    <<"fast-iteration", "weekly-activity", "monthly-activity",
      "infrequent-activity">>

\* C11: with two or more tags, release_signal is the label of the mean d, in
\* days, of the distances between consecutive tag timestamps in ascending
\* order: d < 7 frequent-releases, 7 <= d < 30 monthly-releases,
\* 30 <= d < 90 quarterly-releases, d >= 90 infrequent-releases; tags at day
\* offsets 0, 5, 10, 95 give quarterly-releases.  (Read for a non-empty
\* commit sample; the mean is the exact one, compared in seconds.)
ClaimC11 ==
    (ReturnedRecord /\ Len(tags) >= 2 /\ timestamps # <<>>) =>
        /\ result.recent_release_signal =
              PyStr(BandLabel(SumDeltas(SortedTagTimes), Len(tags) - 1,
                              7, 30, 90, TagLabels))
        /\ SortedTagTimes = <<0, 5 * SecondsPerDay, 10 * SecondsPerDay,
                              95 * SecondsPerDay>>
              => result.recent_release_signal = PyStr("quarterly-releases")

\* C12 as stated: with exactly one tag the returned release_signal is
\* "tagged", for every commit sample.
ClaimC12_AsStated ==
    (ReturnedRecord /\ Len(tags) = 1) =>
        result.recent_release_signal = PyStr("tagged")

\* C12: with exactly one tag the returned release_signal is "tagged" for
\* every non-empty commit sample, and null when the sample is empty.
ClaimC12 ==
    (ReturnedRecord /\ Len(tags) = 1) =>
        result.recent_release_signal =
            (IF timestamps # <<>> THEN PyStr("tagged") ELSE PyNone)

\* one tag next to five commits, which alone would give a commit label
WitnessC12 ==
    /\ ReturnedRecord
    /\ Len(tags) = 1
    /\ Len(timestamps) = 5
    /\ PyStr("weekly-activity") \in _derive_release_signal_from_commits(timestamps)
    /\ result.recent_release_signal = PyStr("tagged")

\* the tags give no signal: there is no tag, or no commit to go with them
NoTagSignal == tags = <<>> \/ timestamps = <<>>

\* C13: release_signal is a commit-cadence label only when the tags give no
\* signal and there are at least 5 commit timestamps; it is then the label of
\* the mean d in days between consecutive sorted commits (d < 3
\* fast-iteration, d < 14 weekly-activity, d < 45 monthly-activity, else
\* infrequent-activity); with no tag signal and fewer than 5 timestamps it
\* is null.
ClaimC13 ==
    ReturnedRecord =>
        /\ result.recent_release_signal \in {PyStr(CommitLabels[i]) : i \in 1..4}
              => (NoTagSignal /\ Len(timestamps) >= 5)
        /\ (NoTagSignal /\ Len(timestamps) >= 5) =>
              result.recent_release_signal =
                  PyStr(BandLabel(SumDeltas(SortInts(timestamps)),
                                  Len(timestamps) - 1, 3, 14, 45, CommitLabels))
        /\ (NoTagSignal /\ Len(timestamps) < 5) =>
              result.recent_release_signal = PyNone

\* C14: average_commits_per_week is null for an empty sample, 1.0 for one
\* timestamp, and for N >= 2 timestamps spanning S seconds the multiple of
\* 0.01 nearest to N / max(S / 604800, 1 / 7): 7 * N when S is at most one
\* day, 10.0 for ten commits whose first and last are 7 days apart.
ClaimC14 ==
    ReturnedRecord =>
        LET N == Len(timestamps)
            v == result.average_commits_per_week
            S == ListMax(timestamps) - ListMin(timestamps)
            exact == 100 * N * SecondsPerWeek
        IN /\ N = 0 => v = PyNone
           /\ N = 1 => v = PyFloat(100)
           /\ N >= 2 =>
                 /\ v.t = "float"
                 /\ S <= SecondsPerDay => v.n = 100 * 7 * N
                 /\ S > SecondsPerDay =>
                       /\ 2 * (v.n * S - exact) <= S
                       /\ 2 * (exact - v.n * S) <= S
                 /\ (N = 10 /\ S = 7 * SecondsPerDay) => v = PyFloat(1000)

\* two commits one hour apart: 14.0 commits per week
WitnessC14 ==
    /\ ReturnedRecord
    /\ Len(timestamps) = 2
    /\ ListMax(timestamps) - ListMin(timestamps) = 3600
    /\ result.average_commits_per_week = PyFloat(1400)

\* the latest commit of the sample
LatestCommit == ListMax(timestamps)

\* C15 as stated: recent_tags_count is the number of tags whose timestamp is
\* at most 365 days away from the largest commit timestamp.
ClaimC15_AsStated ==
    (ReturnedRecord /\ tags # <<>> /\ timestamps # <<>>) =>
        result.recent_tags_count =
            PyInt(Cardinality(
                {i \in 1..Len(tags) :
                    /\ tags[i][2] - LatestCommit <= 365 * SecondsPerDay
                    /\ LatestCommit - tags[i][2] <= 365 * SecondsPerDay}))

\* C15: recent_tags_count is the number of tags, less those created more than
\* 365 days before the largest commit timestamp; a tag created after that
\* commit is counted however much later it is.
ClaimC15 ==
    (ReturnedRecord /\ tags # <<>> /\ timestamps # <<>>) =>
        result.recent_tags_count =
            PyInt(Len(tags)
                  - Cardinality(
                        {i \in 1..Len(tags) :
                            LatestCommit - tags[i][2] > 365 * SecondsPerDay}))

\* latest commit on day 400, tags on days 0, 35 and 390: the tag of day 35,
\* exactly 365 days back, counts and the tag of day 0 does not
WitnessC15 ==
    /\ ReturnedRecord
    /\ timestamps # <<>> /\ tags # <<>>
    /\ LatestCommit = 400 * SecondsPerDay
    /\ TagTimesOf(tags) = <<0, 35 * SecondsPerDay, 390 * SecondsPerDay>>
    /\ result.recent_tags_count = PyInt(2)

\* C16: when the tag list or the commit-timestamp list is empty, the returned
\* recent_tags_count is 0.
ClaimC16 ==
    (ReturnedRecord /\ (tags = <<>> \/ timestamps = <<>>)) =>
        result.recent_tags_count = PyInt(0)

\* collection succeeded and found no commit, no branch and no tag
EmptyHistory ==
    /\ pc = "done" /\ ~GitFailed
    /\ timestamps = <<>> /\ authors = {} /\ commit_messages = <<>>
    /\ branches = {} /\ tags = <<>>

\* C17 as stated: on an empty history analyze_git_history raises nothing and
\* every field of the record is null or empty, for either use_llm and every
\* refiner outcome.
ClaimC17_AsStated ==
    EmptyHistory =>
        /\ raised = ""
        /\ \A f \in ScalarFields : result[f] = PyNone
        /\ result.branch_types = <<>>

\* the refiner answered with a truthy value for convention field k
RefinerGave(k) == http_requests = 1 /\ Truthy(llm_outcome[k])

\* C17: on an empty history analyze_git_history raises nothing, branch_types
\* is empty and every other field is null, except that a convention field
\* for which the refiner returned a truthy value holds that value.
ClaimC17 ==
    EmptyHistory =>
        /\ raised = ""
        /\ \A f \in ScalarFields \ ConventionKeys : result[f] = PyNone
        /\ result.branch_types = <<>>
        /\ \A k \in ConventionKeys :
              result[k] = (IF RefinerGave(k) THEN llm_outcome[k] ELSE PyNone)

\* empty history, the refiner names a commit convention and nothing else
WitnessC17 ==
    /\ EmptyHistory
    /\ raised = ""
    /\ http_requests = 1
    /\ llm_outcome.kind = "object"
    /\ llm_outcome.commit_convention = PyStr("custom/{name}")
    /\ llm_outcome.tag_naming_convention = PyNone
    /\ result.commit_convention = PyStr("custom/{name}")
    /\ result.tag_naming_convention = PyNone
    /\ result.average_commits_per_week = PyNone

\* the record the call returns with use_llm false on the collected data:
\* lines 97-109 assign the rule-based values and keep them
RecordWithoutLLM ==
    IF GitFailed THEN NullMetrics
    ELSE return_metrics(
             [locals EXCEPT
                !.commit_convention =
                    merge_field(RuleBasedValue("commit_convention"),
                                RuleBasedValue("commit_convention")),
                !.branch_naming_pattern =
                    merge_field(RuleBasedValue("branch_naming_pattern"),
                                RuleBasedValue("branch_naming_pattern")),
                !.tag_naming_convention =
                    merge_field(RuleBasedValue("tag_naming_convention"),
                                RuleBasedValue("tag_naming_convention"))])

\* C19: with use_llm true and no API key (parameter or environment),
\* analyze_git_history raises nothing, sends no HTTP request and returns the
\* record it returns with use_llm false on the same git data.
ClaimC19 ==
    (pc = "done" /\ use_llm /\ ~has_api_key) =>
        /\ raised = ""
        /\ http_requests = 0
        /\ result = RecordWithoutLLM

\* LLM enabled, no key, on the history whose rule-based fields are all set
WitnessC19 ==
    /\ pc = "done" /\ use_llm /\ ~has_api_key /\ ~GitFailed
    /\ http_requests = 0
    /\ result.commit_convention = PyStr("conventional-commits")
    /\ result.branch_naming_pattern = PyStr("feature/{name}, fix/{name}")
    /\ result.tag_naming_convention = PyStr("semantic-versioning")

\* the one request of this call has failed
RequestFailed == http_requests >= 1 /\ llm_outcome.kind \in LLMFailures

\* the call has returned the rule-based convention values, raising nothing
ReturnedRuleBased ==
    /\ pc = "done"
    /\ raised = ""
    /\ \A k \in ConventionKeys : result[k] = RuleBasedValue(k)

\* the number of steps between a position of the call and its return
StepsToReturn(p) ==
    CASE p = "done" -> 0
      [] p = "fallback" -> 1
      [] p = "assign" -> 2
      [] p = "response" -> 3
      [] OTHER -> 4

\* after the failure a step sends nothing and brings the return nearer
NoRetry ==
    RequestFailed =>
        /\ http_requests' = http_requests
        /\ StepsToReturn(pc') < StepsToReturn(pc)

\* C20: one call sends at most one HTTP request; after a failure or timeout
\* of that request no second request is made, every further step brings the
\* return nearer, and what is returned are the rule-based convention values.
ClaimC20 ==
    /\ [](http_requests <= 1)
    /\ [][NoRetry]_vars
    /\ []((RequestFailed /\ pc = "done") => ReturnedRuleBased)

\* the request timed out and the call returned the rule-based values
WitnessC20 ==
    /\ pc = "done"
    /\ http_requests = 1
    /\ llm_outcome.kind = "timeout"
    /\ raised = ""
    /\ result.commit_convention = PyStr("conventional-commits")
    /\ result.tag_naming_convention = PyStr("semantic-versioning")

\* C21: in every returned record each of the three convention fields is
\* null or a string, whatever the JSON types of the fields of the object the
\* LLM returned.
ClaimC21 ==
    (pc = "done" /\ raised = "") =>
        \A k \in ConventionKeys : result[k].t \in {"NoneType", "str"}

\* the positions of the call inside _analyze_with_llm and its request
RefinerPositions == {"analyze_with_llm", "call_api", "response"}

\* C22: the refiner is invoked, and an HTTP request sent, only after all five
\* git reads have succeeded and only when use_llm is true; after a collection
\* failure the all-null record is returned without any refiner call, and with
\* use_llm false the refiner is never entered.
ClaimC22 ==
    /\ (pc \in RefinerPositions \/ http_requests > 0) =>
          (use_llm /\ Len(returncodes) = 5 /\ ~GitFailed)
    /\ (pc = "done" /\ GitFailed /\ raised = "") =>
          (result = NullMetrics /\ http_requests = 0)
    /\ (pc = "done" /\ ~use_llm) => http_requests = 0

\* use_llm is false while a key is configured: the call returns the
\* rule-based values and no request was sent
WitnessC22 ==
    /\ pc = "done" /\ ~use_llm /\ has_api_key /\ ~GitFailed
    /\ raised = ""
    /\ http_requests = 0
    /\ result.commit_convention = PyStr("conventional-commits")

\* the tag lists with as many tags as tgs and the same earliest and latest
SameExtremes(tgs) ==
    {other \in ReleaseTagLists \cup TagLists :
        /\ Len(other) = Len(tgs)
        /\ ListMin(TagTimesOf(other)) = ListMin(TagTimesOf(tgs))
        /\ ListMax(TagTimesOf(other)) = ListMax(TagTimesOf(tgs))}

\* C28: for two or more tags the tag-based release signal depends only on
\* the earliest tag timestamp, the latest one and the number of tags n: it
\* is the label for (latest - earliest) / (n - 1) days, and every tag list
\* with the same n and the same two extremes gets the same signal.  (Read
\* for a non-empty commit sample.)
ClaimC28 ==
    (ReturnedRecord /\ Len(tags) >= 2 /\ timestamps # <<>>) =>
        /\ result.recent_release_signal =
              PyStr(BandLabel(ListMax(TagTimesOf(tags)) - ListMin(TagTimesOf(tags)),
                              Len(tags) - 1, 7, 30, 90, TagLabels))
        /\ \A other \in SameExtremes(tags) :
              _derive_release_signal_from_tags(other, timestamps) =
                  {result.recent_release_signal}

\* the analyzer exists and the prompt has been built from the samples
PromptBuilt == pc \in {"call_api", "response"}

\* C26: the data handed to the refiner for one prompt is at most 100 commit
\* subjects (the first 100 of the sample), at most 50 tag names, and at most
\* 50 branch names, none of which is a canonical base name (compared
\* case-insensitively) or a HEAD pointer.
ClaimC26 ==
    PromptBuilt =>
        /\ Len(commit_samples(commit_messages)) <= 100
        /\ commit_samples(commit_messages) =
              SubSeq(commit_messages, 1, Len(commit_samples(commit_messages)))
        /\ Len(tag_samples(tag_names(tags))) <= 50
        /\ \A S \in branch_samples(llm_feature_branches(branches)) :
              /\ Cardinality(S) <= 50
              /\ \A b \in S :
                    /\ lower(b) \notin main_branches
                    /\ ~startswith(b, "HEAD")

-----------------------------------------------------------------------------
(* Client manager: utils/codeindex_utils.py, CodeIndexClientManager *)

Threads == 1..MaxThreads

\* the db_path arguments: three spellings of one file, and another file
DbPaths == {"index.db", "./index.db", "/repo/index.db", "other.db"}

\* str(Path(db_path).resolve()) for a process running in /repo
_normalize_path(db_path) ==
    IF startswith(db_path, "/") THEN db_path
    ELSE IF startswith(db_path, "./")
    THEN "/repo/" \o Sub(db_path, 3, Len(db_path))
    ELSE "/repo/" \o db_path

\* Path(db_path).exists()
exists(db_path) == _normalize_path(db_path) \in db_files

\* every thread is about to call CodeIndexClientManager.get_instance()
InitClients ==
    /\ _instance = 0
    /\ _lock = 0
    /\ managers = <<>>
    /\ clients = <<>>
    /\ threads = [t \in Threads |->
          [pc |-> "get_instance", manager |-> 0, db_path |-> "",
           normalized_path |-> "", client |-> 0, raised |-> ""]]
    /\ db_files \in {{"/repo/index.db"}, {"/repo/index.db", "/repo/other.db"}}
    /\ pc = "threads" /\ arg = "unset" /\ ret = "unset"
    /\ Unused

HistoryUnchanged ==
    UNCHANGED <<pc, use_llm, has_api_key, repo, returncodes, timestamps,
                authors, commit_messages, branches, tags, locals, llm_outcome,
                llm_result, exc, http_requests, raised, result, arg, ret>>

\* the thread leaves "with self._client_lock" by a return or an exception
Leave(t, client, exception) ==
    [threads EXCEPT ![t].pc = "done", ![t].client = client,
                    ![t].raised = exception]

\* line 33: "if cls._instance is None", read without the lock
GetInstance(t) ==
    /\ threads[t].pc = "get_instance"
    /\ threads' = [threads EXCEPT ![t].pc =
          IF _instance = 0 THEN "acquire_lock" ELSE "return_instance"]
    /\ UNCHANGED <<_instance, _lock, managers, clients, db_files>>
    /\ HistoryUnchanged

\* line 34: "with cls._lock"
AcquireLock(t) ==
    /\ threads[t].pc = "acquire_lock"
    /\ _lock = 0
    /\ _lock' = t
    /\ threads' = [threads EXCEPT ![t].pc = "check_again"]
    /\ UNCHANGED <<_instance, managers, clients, db_files>>
    /\ HistoryUnchanged

\* variant: the second test of "cls._instance is None" is left out
instance_missing_unchecked(instance) == TRUE

\* line 35: "if cls._instance is None", under the lock
instance_missing(instance) == instance = 0

\* lines 35-36, with __init__ (lines 22-23) for the new manager
CheckAgain(t) ==
    /\ threads[t].pc = "check_again"
    /\ IF instance_missing(_instance)
       THEN /\ managers' = Append(managers, [_clients |-> <<>>,
                                                 _client_lock |-> 0])
            /\ _instance' = Len(managers) + 1
       ELSE UNCHANGED <<managers, _instance>>
    /\ threads' = [threads EXCEPT ![t].pc = "release_lock"]
    /\ UNCHANGED <<_lock, clients, db_files>>
    /\ HistoryUnchanged

\* the end of "with cls._lock"
ReleaseLock(t) ==
    /\ threads[t].pc = "release_lock"
    /\ _lock' = 0
    /\ threads' = [threads EXCEPT ![t].pc = "return_instance"]
    /\ UNCHANGED <<_instance, managers, clients, db_files>>
    /\ HistoryUnchanged

\* line 37: "return cls._instance"
ReturnInstance(t) ==
    /\ threads[t].pc = "return_instance"
    /\ threads' = [threads EXCEPT ![t].pc = "get_client",
                                  ![t].manager = _instance]
    /\ UNCHANGED <<_instance, _lock, managers, clients, db_files>>
    /\ HistoryUnchanged

\* line 65: get_client(db_path) is called and normalises its argument
GetClient(t) ==
    /\ threads[t].pc = "get_client"
    /\ \E db_path \in DbPaths :
          threads' = [threads EXCEPT
                         ![t].pc = "acquire_client_lock",
                         ![t].db_path = db_path,
                         ![t].normalized_path = _normalize_path(db_path)]
    /\ UNCHANGED <<_instance, _lock, managers, clients, db_files>>
    /\ HistoryUnchanged

\* line 67: "with self._client_lock"
AcquireClientLock(t) ==
    /\ threads[t].pc = "acquire_client_lock"
    /\ managers[threads[t].manager]._client_lock = 0
    /\ managers' = [managers EXCEPT ![threads[t].manager]._client_lock = t]
    /\ threads' = [threads EXCEPT ![t].pc = "lookup"]
    /\ UNCHANGED <<_instance, _lock, clients, db_files>>
    /\ HistoryUnchanged

\* lines 68-75: a registered client is returned unless it has been closed,
\* a closed one is taken out of the registry
Lookup(t) ==
    /\ threads[t].pc = "lookup"
    /\ LET m == threads[t].manager
           registry == managers[m]._clients
           key == threads[t].normalized_path
       IN IF key \in DOMAIN registry
          THEN IF clients[registry[key]].open
               THEN /\ threads' = Leave(t, registry[key], "")
                    /\ managers' = [managers EXCEPT ![m]._client_lock = 0]
               ELSE /\ threads' = [threads EXCEPT ![t].pc = "check_exists"]
                    /\ managers' = [managers EXCEPT
                                       ![m]._clients = DictPop(registry, key)]
          ELSE /\ threads' = [threads EXCEPT ![t].pc = "check_exists"]
               /\ UNCHANGED managers
    /\ UNCHANGED <<_instance, _lock, clients, db_files>>
    /\ HistoryUnchanged

\* lines 77-82
CheckExists(t) ==
    /\ threads[t].pc = "check_exists"
    /\ IF exists(threads[t].db_path)
       THEN /\ threads' = [threads EXCEPT ![t].pc = "construct"]
            /\ UNCHANGED managers
       ELSE /\ threads' = Leave(t, 0, "FileNotFoundError")
            /\ managers' = [managers EXCEPT
                               ![threads[t].manager]._client_lock = 0]
    /\ UNCHANGED <<_instance, _lock, clients, db_files>>
    /\ HistoryUnchanged

\* line 85: "client = CodeIndexClient(db_path)"
Construct(t) ==
    /\ threads[t].pc = "construct"
    /\ clients' = Append(clients, [db_path |-> threads[t].db_path,
                                   open |-> FALSE])
    /\ threads' = [threads EXCEPT ![t].pc = "start",
                                  ![t].client = Len(clients) + 1]
    /\ UNCHANGED <<_instance, _lock, managers, db_files>>
    /\ HistoryUnchanged

\* lines 86-92: client.start() returns or raises; the started client is
\* registered and returned, an exception is raised again as
\* FileNotFoundError or RuntimeError
Start(t) ==
    /\ threads[t].pc = "start"
    /\ \E outcome \in {"started", "DatabaseNotFoundError", "Exception"} :
          LET m == threads[t].manager
              c == threads[t].client
          IN IF outcome = "started"
             THEN /\ clients' = [clients EXCEPT ![c].open = TRUE]
                  /\ managers' = [managers EXCEPT
                        ![m]._clients =
                            DictSet(managers[m]._clients,
                                    threads[t].normalized_path, c),
                        ![m]._client_lock = 0]
                  /\ threads' = Leave(t, c, "")
             ELSE /\ UNCHANGED clients
                  /\ managers' = [managers EXCEPT ![m]._client_lock = 0]
                  /\ threads' = Leave(t, 0,
                        IF outcome = "DatabaseNotFoundError"
                        THEN "FileNotFoundError" ELSE "RuntimeError")
    /\ UNCHANGED <<_instance, _lock, db_files>>
    /\ HistoryUnchanged

\* a caller closes the client it was given: the test of line 71 finds
\* "client._db is None" from then on
CloseReceivedClient(t) ==
    /\ threads[t].pc = "done"
    /\ threads[t].client # 0
    /\ clients[threads[t].client].open
    /\ clients' = [clients EXCEPT ![threads[t].client].open = FALSE]
    /\ UNCHANGED <<_instance, _lock, managers, threads, db_files>>
    /\ HistoryUnchanged

NextClients ==
    \/ \E t \in Threads : GetInstance(t)
    \/ \E t \in Threads : AcquireLock(t)
    \/ \E t \in Threads : CheckAgain(t)
    \/ \E t \in Threads : ReleaseLock(t)
    \/ \E t \in Threads : ReturnInstance(t)
    \/ \E t \in Threads : GetClient(t)
    \/ \E t \in Threads : AcquireClientLock(t)
    \/ \E t \in Threads : Lookup(t)
    \/ \E t \in Threads : CheckExists(t)
    \/ \E t \in Threads : Construct(t)
    \/ \E t \in Threads : Start(t)
    \/ \E t \in Threads : CloseReceivedClient(t)

SpecClients == InitClients /\ [][NextClients]_vars

-----------------------------------------------------------------------------
(* Properties of the branch detectors (specification SpecBranches) *)

Returned(fn) == pc = "returned" /\ ret.fn = fn

SpecExampleBranches == {"main", "feature/login", "feature/logout", "fix/crash"}

\* the logical name: a leading remote-origin prefix removed
StripOrigin(b) ==
    IF startswith(b, "remotes/origin/") THEN Sub(b, 16, Len(b))
    ELSE IF startswith(b, "origin/") THEN Sub(b, 8, Len(b))
    ELSE b

NonBase(b) == lower(b) \notin main_branches /\ ~startswith(b, "HEAD")

\* C6: branch_types contains the catalogue token p whenever some branch that
\* is neither a canonical base name nor a HEAD pointer has a logical name
\* starting with p followed by "/" or "-"; the branches main, feature/login,
\* feature/logout, fix/crash give <<feature, fix>>.
ClaimC6 ==
    Returned("_detect_branch_types") =>
        /\ \A p \in Range(branch_type_patterns) :
              (\E b \in arg :
                  /\ NonBase(b)
                  /\ \/ startswith(lower(StripOrigin(b)), p \o "/")
                     \/ startswith(lower(StripOrigin(b)), p \o "-"))
              => p \in Range(ret.value)
        /\ arg = SpecExampleBranches => ret.value = <<"feature", "fix">>

\* C7: branch_strategy is the first matching rule of: develop/dev and
\* (a name containing feature/feat, release or hotfix) -> git-flow;
\* main/master and develop/dev -> github-flow-with-develop; main/master and
\* (feature/feat or hotfix) -> feature-branch; main/master -> trunk-based;
\* otherwise null; names are compared case-insensitively.
ClaimC7 ==
    Returned("_detect_branch_strategy") =>
        LET names == {lower(b) : b \in arg}
            trunk == "main" \in names \/ "master" \in names
            develop == "develop" \in names \/ "dev" \in names
            feature == \E n \in names : contains(n, "feature") \/ contains(n, "feat")
            release == \E n \in names : contains(n, "release")
            hotfix == \E n \in names : contains(n, "hotfix")
        IN ret.value =
              (CASE develop /\ (feature \/ release \/ hotfix) -> PyStr("git-flow")
                 [] ~(develop /\ (feature \/ release \/ hotfix))
                    /\ trunk /\ develop -> PyStr("github-flow-with-develop")
                 [] ~develop /\ trunk /\ (feature \/ hotfix) ->
                        PyStr("feature-branch")
                 [] ~develop /\ trunk /\ ~(feature \/ hotfix) ->
                        PyStr("trunk-based")
                 [] OTHER -> PyNone)

\* the example of the specification gives feature-branch
WitnessC7 ==
    /\ Returned("_detect_branch_strategy")
    /\ arg = SpecExampleBranches
    /\ ret.value = PyStr("feature-branch")

\* the pattern of an accepted prefix: at least T of the non-base branches
\* start with "p/" (slash form) or else with "p-" (dash form); "" otherwise
AcceptedForm(bs, p) ==
    LET fb == naming_feature_branches(bs)
        T == naming_threshold(Cardinality(fb))
    IN IF slash_count(fb, p) >= T THEN p \o "/{name}"
       ELSE IF dash_count(fb, p) >= T THEN p \o "-{name}"
       ELSE ""

\* the accepted patterns, feat only when feature is not accepted
AcceptedPatterns(bs) ==
    {AcceptedForm(bs, p) : p \in
        {q \in Range(prefix_order) :
            /\ AcceptedForm(bs, q) # ""
            /\ q = "feat" => AcceptedForm(bs, "feature") = ""}}

\* the pieces of a string joined with ", "
RECURSIVE CommaPieces(_)
CommaPieces(str) ==
    IF ~contains(str, ", ") THEN <<str>>
    ELSE LET i == CHOOSE k \in 1..(Len(str) - 1) :
                    /\ SubSeq(str, k, k + 1) = ", "
                    /\ \A j \in 1..(k - 1) : SubSeq(str, j, j + 1) # ", "
         IN <<Sub(str, 1, i - 1)>> \o CommaPieces(Sub(str, i + 2, Len(str)))

\* C10: when at least one catalogue prefix is accepted, the rule-based
\* branch_naming_pattern is the accepted patterns, one per prefix, each
\* "p/{name}" or "p-{name}", in strictly ascending string order, joined by
\* ", "; the branches main, feature/login, feature/logout, fix/crash give
\* "feature/{name}, fix/{name}".
ClaimC10 ==
    (Returned("_detect_branch_naming_pattern") /\ AcceptedPatterns(arg) # {}) =>
        /\ ret.value.t = "str"
        /\ LET pieces == CommaPieces(ret.value.s)
           IN /\ Range(pieces) = AcceptedPatterns(arg)
              /\ \A i \in 1..(Len(pieces) - 1) : StrLess(pieces[i], pieces[i + 1])
        /\ arg = SpecExampleBranches =>
              ret.value = PyStr("feature/{name}, fix/{name}")

\* two prefixes accepted, listed out of catalogue order
WitnessC10 ==
    /\ Returned("_detect_branch_naming_pattern")
    /\ arg = {"origin/bugfix/a", "feature/login", "fix-typo"}
    /\ ret.value = PyStr("bugfix/{name}, feature/{name}, fix-{name}")

\* the catalogue prefixes whose pattern appears in a naming pattern string
RecordedForm(value, p) ==
    IF value.t # "str" THEN ""
    ELSE IF (p \o "/{name}") \in Range(CommaPieces(value.s)) THEN p \o "/{name}"
    ELSE IF (p \o "-{name}") \in Range(CommaPieces(value.s)) THEN p \o "-{name}"
    ELSE ""

\* a count of at least max(1, 10% of total), 10% taken exactly
ClearsTenPercent(count, total) == count >= 1 /\ 10 * count >= total

\* C23 as stated: with T = max(1, 10% of the non-base branches), a prefix
\* other than feat is recorded in the slash form when at least T branches
\* start with "p/", else in the dash form when at least T start with "p-",
\* else not at all; a form below 10% of the branches is not accepted.
ClaimC23_AsStated ==
    Returned("_detect_branch_naming_pattern") =>
        \A p \in Range(prefix_order) \ {"feat"} :
            LET fb == naming_feature_branches(arg)
                total == Cardinality(fb)
            IN RecordedForm(ret.value, p) =
                  IF ClearsTenPercent(slash_count(fb, p), total)
                  THEN p \o "/{name}"
                  ELSE IF ClearsTenPercent(dash_count(fb, p), total)
                  THEN p \o "-{name}"
                  ELSE ""

\* a count of at least max(1, 10% of total rounded down)
ClearsThreshold(count, total) ==
    count >= (IF total \div 10 > 1 THEN total \div 10 ELSE 1)

\* C23: with T = max(1, 10% of the number of non-base branches rounded
\* down), a prefix other than feat is recorded as "p/{name}" when at least
\* T non-base branches start with "p/", otherwise as "p-{name}" when at
\* least T start with "p-", and otherwise contributes nothing; the slash
\* form is chosen whenever both clear T, and a form whose count is below T
\* is not accepted.
ClaimC23 ==
    Returned("_detect_branch_naming_pattern") =>
        \A p \in Range(prefix_order) \ {"feat"} :
            LET fb == naming_feature_branches(arg)
                total == Cardinality(fb)
            IN RecordedForm(ret.value, p) =
                  IF ClearsThreshold(slash_count(fb, p), total)
                  THEN p \o "/{name}"
                  ELSE IF ClearsThreshold(dash_count(fb, p), total)
                  THEN p \o "-{name}"
                  ELSE ""

\* 22 non-base branches (T = 2), two in each form of fix: the slash form
WitnessC23 ==
    /\ Returned("_detect_branch_naming_pattern")
    /\ arg = {PlainBranches[i] : i \in 1..18}
                \cup {"fix/a", "fix/b", "fix-c", "fix-d"}
    /\ ret.value = PyStr("fix/{name}")

\* the prefix p clears the threshold in one of its two forms
Clears(bs, p) ==
    LET fb == naming_feature_branches(bs)
        total == Cardinality(fb)
    IN \/ ClearsThreshold(slash_count(fb, p), total)
       \/ ClearsThreshold(dash_count(fb, p), total)

\* C24: the rule-based branch_naming_pattern never contains both a feat
\* pattern and a feature pattern: when feature clears the threshold only the
\* feature pattern appears, and a feat pattern appears exactly when feat
\* clears the threshold and feature does not.
ClaimC24 ==
    Returned("_detect_branch_naming_pattern") =>
        LET feat == RecordedForm(ret.value, "feat") # ""
            feature == RecordedForm(ret.value, "feature") # ""
        IN /\ ~(feat /\ feature)
           /\ Clears(arg, "feature") => (feature /\ ~feat)
           /\ feat <=> (Clears(arg, "feat") /\ ~Clears(arg, "feature"))

\* feat and feature both clear the threshold, only feature is recorded
WitnessC24 ==
    /\ Returned("_detect_branch_naming_pattern")
    /\ arg = {"feature/login", "feat-ui", "fix/crash"}
    /\ ret.value = PyStr("feature/{name}, fix/{name}")

GenericPatterns == {PyStr("{type}-{name}"), PyStr("{type}/{name}")}

\* the number of branches whose logical name has sep after its first character
InnerSeparatorCount(bs, sep) ==
    Cardinality({b \in naming_feature_branches(bs) :
        \E i \in 2..Len(extract_branch_name(b)) :
            CharAt(extract_branch_name(b), i) = sep})

NoPrefixClears(bs) == \A p \in Range(prefix_order) : ~Clears(bs, p)

\* C25 as stated: a generic pattern is produced only when no catalogue
\* prefix clears its threshold; then the result is "{type}-{name}" when at
\* least 30% of the non-base branches contain a non-leading dash, otherwise
\* "{type}/{name}" when at least 30% contain a non-leading slash, otherwise
\* null.
ClaimC25_AsStated ==
    Returned("_detect_branch_naming_pattern") =>
        LET total == Cardinality(naming_feature_branches(arg))
            dash == InnerSeparatorCount(arg, "-")
            slash == InnerSeparatorCount(arg, "/")
        IN /\ ret.value \in GenericPatterns => NoPrefixClears(arg)
           /\ NoPrefixClears(arg) =>
                 ret.value =
                    IF dash >= 1 /\ 10 * dash >= 3 * total
                    THEN PyStr("{type}-{name}")
                    ELSE IF slash >= 1 /\ 10 * slash >= 3 * total
                    THEN PyStr("{type}/{name}")
                    ELSE PyNone

\* a count of at least max(1, 30% of total rounded down)
ClearsGeneric(count, total) ==
    count >= (IF (3 * total) \div 10 > 1 THEN (3 * total) \div 10 ELSE 1)

\* C25: the generic patterns are produced only when no catalogue prefix
\* clears its threshold: then, with G = max(1, 30% of the number of
\* non-base branches rounded down), branch_naming_pattern is "{type}-{name}"
\* when at least G of them contain a non-leading dash, otherwise
\* "{type}/{name}" when at least G contain a non-leading slash, otherwise
\* null; with fewer than G in both groups the result is null.
ClaimC25 ==
    Returned("_detect_branch_naming_pattern") =>
        LET total == Cardinality(naming_feature_branches(arg))
            dash == InnerSeparatorCount(arg, "-")
            slash == InnerSeparatorCount(arg, "/")
        IN /\ ret.value \in GenericPatterns => NoPrefixClears(arg)
           /\ NoPrefixClears(arg) =>
                 ret.value =
                    IF ClearsGeneric(dash, total) THEN PyStr("{type}-{name}")
                    ELSE IF ClearsGeneric(slash, total)
                    THEN PyStr("{type}/{name}")
                    ELSE PyNone

\* 12 non-base branches (G = 3), three of them with a dash
WitnessC25 ==
    /\ Returned("_detect_branch_naming_pattern")
    /\ arg = {PlainBranches[i] : i \in 1..9}
                \cup {"my-topic", "our-topic", "new-topic"}
    /\ ret.value = PyStr("{type}-{name}")

\* C27: branch_types is a strictly ascending (sorted, duplicate-free) list
\* whose elements all belong to the catalogue; a branch list made only of
\* canonical base names and HEAD pointers gives the empty list.
ClaimC27 ==
    Returned("_detect_branch_types") =>
        /\ \A i \in 1..(Len(ret.value) - 1) :
              StrLess(ret.value[i], ret.value[i + 1])
        /\ Range(ret.value) \subseteq
              {"feature", "feat", "fix", "bugfix", "bug", "hotfix", "release",
               "chore", "docs", "refactor", "test", "perf", "style"}
        /\ (\A b \in arg : ~NonBase(b)) => ret.value = <<>>

\* two types found, listed against the order of the catalogue
WitnessC27 ==
    /\ Returned("_detect_branch_types")
    /\ arg = {"main", "fix-typo", "origin/bugfix/a"}
    /\ ret.value = <<"bugfix", "fix">>

\* C29: the two rule-based branch outputs agree: each catalogue prefix p
\* whose pattern "p/{name}" or "p-{name}" appears in the rule-based
\* branch_naming_pattern is also an element of branch_types computed from
\* the same branch list.
ClaimC29 ==
    Returned("_detect_branch_naming_pattern") =>
        \A p \in Range(prefix_order) :
            RecordedForm(ret.value, p) # "" =>
                p \in Range(_detect_branch_types(arg))

-----------------------------------------------------------------------------
(* Properties of the commit matcher (specification SpecCommits) *)

\* C8: for a non-empty list of subjects the label is conventional-commits
\* when at least half of them match the conventional pattern (exactly half
\* counts, and this wins over angular), otherwise angular-style when at
\* least half match the angular pattern, otherwise null; the empty list
\* gives null.
ClaimC8 ==
    Returned("_detect_commit_convention") =>
        LET n == Len(arg)
            conventional ==
                Cardinality({i \in 1..n : conventional_pattern(arg[i])})
            angular == Cardinality({i \in 1..n : angular_pattern(arg[i])})
        IN /\ (n > 0 /\ 2 * conventional >= n) =>
                  ret.value = PyStr("conventional-commits")
           /\ (n > 0 /\ 2 * conventional < n /\ 2 * angular >= n) =>
                  ret.value = PyStr("angular-style")
           /\ (n = 0 \/ (2 * conventional < n /\ 2 * angular < n)) =>
                  ret.value = PyNone

\* exactly half of the subjects are conventional, all of them are angular
WitnessC8 ==
    /\ Returned("_detect_commit_convention")
    /\ arg = <<"feat: add login", "feat!: drop v1">>
    /\ ret.value = PyStr("conventional-commits")

\* the list xs with the elements at positions i and j exchanged
Exchanged(xs, i, j) ==
    [k \in 1..Len(xs) |-> IF k = i THEN xs[j] ELSE IF k = j THEN xs[i] ELSE xs[k]]

\* C18: the commit-convention label does not depend on the order of the
\* subjects.  Every permutation is a chain of exchanges of two neighbouring
\* positions, and every list of the checked lengths is an input: the label
\* of every permutation equals the label of the list as soon as no such
\* exchange changes the label of any list.
ClaimC18 ==
    Returned("_detect_commit_convention") =>
        \A i \in 1..(Len(arg) - 1) :
            _detect_commit_convention(Exchanged(arg, i, i + 1)) = ret.value

\* a list that starts with a merge commit and is conventional by majority
WitnessC18 ==
    /\ Returned("_detect_commit_convention")
    /\ arg = <<"Merge branch dev", "feat: add login", "fix(ui): crash">>
    /\ ret.value = PyStr("conventional-commits")
    /\ Exchanged(arg, 1, 2) # arg

-----------------------------------------------------------------------------
(* Properties of the tag matcher (specification SpecTags) *)

TagFamilies ==
    <<"semantic-versioning", "calendar-versioning", "simple-versioning",
      "date-based">>

InFamily(family, name) ==
    CASE family = "semantic-versioning" -> semver_pattern(name)
      [] family = "calendar-versioning" -> calver_pattern(name)
      [] family = "simple-versioning" -> simple_pattern(name)
      [] family = "date-based" -> date_pattern(name)

\* C9: tag_naming_convention is the first family, in the order semantic,
\* calendar, simple, date-based, matched by at least half of the tag names;
\* null when no family reaches half and when there are no tags; the tags
\* v1.0.0, v1.2.0, v2.0.0 give semantic-versioning.
ClaimC9 ==
    Returned("_detect_tag_naming_convention") =>
        LET n == Len(arg)
            reaches(f) ==
                /\ n > 0
                /\ 2 * Cardinality({i \in 1..n :
                        InFamily(TagFamilies[f], arg[i][1])}) >= n
            winners == {f \in 1..4 : reaches(f)}
        IN /\ winners = {} => ret.value = PyNone
           /\ winners # {} =>
                 ret.value =
                    PyStr(TagFamilies[CHOOSE f \in winners :
                                         \A g \in winners : f <= g])

\* the example of the specification
WitnessC9 ==
    /\ Returned("_detect_tag_naming_convention")
    /\ arg = <<<<"v1.0.0", 0>>, <<"v1.2.0", 0>>, <<"v2.0.0", 0>>>>
    /\ ret.value = PyStr("semantic-versioning")

-----------------------------------------------------------------------------
(* Properties of the client manager (specification SpecClients) *)

\* the clients that are open and registered, in any manager, under the path
RegisteredLive(path) ==
    {c \in 1..Len(clients) :
        /\ clients[c].open
        /\ \E m \in 1..Len(managers) :
              /\ path \in DOMAIN managers[m]._clients
              /\ managers[m]._clients[path] = c}

\* the clients registered, in any manager, under a key that normalises to path
Registered(path) ==
    {<<m, key>> \in (1..Len(managers)) \X {_normalize_path(p) : p \in DbPaths}
        \cup (1..Len(managers)) \X DbPaths :
        /\ key \in DOMAIN managers[m]._clients
        /\ _normalize_path(key) = path}

\* the threads that got a client which is still open for a spelling of path
Holders(path) ==
    {t \in Threads :
        /\ threads[t].pc = "done"
        /\ threads[t].client # 0
        /\ clients[threads[t].client].open
        /\ _normalize_path(threads[t].db_path) = path}

\* a step constructs a client only when no open client is registered for
\* the path of the new one
CreatesOnlyWithoutLive ==
    Len(clients') > Len(clients) =>
        RegisteredLive(_normalize_path(clients'[Len(clients')].db_path)) = {}

\* C30: under every interleaving of concurrent get_client calls of several
\* threads for database paths that normalise to the same absolute path, no
\* client is created while an open client is registered for that path, at
\* most one open client exists for it, all callers holding an open client
\* hold the same one, which is the registered one, and the registry never
\* holds two clients for one normalised path.
ClaimC30 ==
    /\ [][CreatesOnlyWithoutLive]_vars
    /\ [](\A path \in {_normalize_path(p) : p \in DbPaths} :
            /\ Cardinality({c \in 1..Len(clients) :
                    /\ clients[c].open
                    /\ _normalize_path(clients[c].db_path) = path}) <= 1
            /\ \A t \in Holders(path) :
                  RegisteredLive(path) = {threads[t].client}
            /\ Cardinality(Registered(path)) <= 1)

\* two threads asked for two spellings of one path and hold the one client
WitnessC30 ==
    /\ threads[1].pc = "done" /\ threads[2].pc = "done"
    /\ threads[1].db_path = "index.db" /\ threads[2].db_path = "./index.db"
    /\ threads[1].client = 1 /\ threads[2].client = 1
    /\ clients[1].open
    /\ Len(clients) = 1

=============================================================================
